---- MODULE Spec2Model ----
(***************************************************************************)
(* Model of the two host-side control loops of gt-omscs-project1:          *)
(*   - the VCPU scheduler  (vcpu_scheduler.c, vcpu_scheduler_defs.h)       *)
(*   - the memory coordinator (memory_coordinator.c and its defs header)   *)
(* Each daemon is a single-threaded loop; the two share no state, so each  *)
(* has its own specification (SpecCpu, SpecMem) over its own variables.    *)
(* SpecMemScen runs the coordinator in the environments of the worked      *)
(* examples; SpecDaemons starts either daemon, for the properties of the   *)
(* error paths that both share. SpecCpuClosed runs the scheduler on a host *)
(* whose utilizations follow from the pinning, SpecCpuWide on a host whose *)
(* counters run ahead of the cycle or fall back, SpecCpuBusy on a host     *)
(* with enough guests for two pCPUs to be hot at once, SpecCpuScen on the  *)
(* host of the worked example with four guests, SpecCpuMany on a host with *)
(* nine pCPUs, SpecCpuCycle with the interval of the command line as an    *)
(* input, and SpecMemFault                                                 *)
(* runs the coordinator on a host whose free-memory query fails inside a   *)
(* cycle.                                                                  *)
(*                                                                         *)
(* Bit masks (unsigned int) are modelled as the set of their set bits, so  *)
(* "mask |= (1 << i)" is union with {i}, "mask &= ~(1 << i)" is set        *)
(* difference and LOW_BIT_GET32 is the minimum of the set.                 *)
(*                                                                         *)
(* TLC's integers are 32 bits wide. The C expressions that are evaluated   *)
(* in unsigned long long are modelled on 64-bit values kept as eight       *)
(* base-256 limbs (little endian), so that wrap-around is the code's.      *)
(*                                                                         *)
(* What the environment supplies:                                          *)
(*   - The scheduler keeps, per pCPU and per vCPU, the last value of a     *)
(*     monotonic counter (last_time) and uses only the difference to the   *)
(*     new reading. The model does not store the counters: the input of a  *)
(*     cycle is that difference (PcpuIdleDeltas, VcpuTimeDeltas), which    *)
(*     is exact because the subtraction is modulo 2^64.                    *)
(*   - A guest reports a balloon size (mem_total) that is not above its    *)
(*     maximum memory, and once it has reported its two statistics it      *)
(*     reports them in every cycle (VmSamplesOf).                          *)
(*   - LOW_BIT_GET32 is taken by its contract, the position of the lowest  *)
(*     set bit: its bsf instruction yields that position when the compiler *)
(*     places the macro's input and output in the same register.           *)
(*   - Every libvirt call whose result the code tests may fail at any      *)
(*     time, and so may each virDomainSetMemory of the fair reclaim.       *)
(*     virNodeGetFreeMemory is tested by virt_init only; inside a cycle    *)
(*     its result is used as it comes. The samples are non-zero except in  *)
(*     SpecMemFault, where the call can fail (it returns 0).               *)
(*                                                                         *)
(* virt_info.conn and virt_info.domain_list stand for what the process     *)
(* holds: the connection ("none", "open", "closed") and the number of      *)
(* guest handles not yet freed.                                            *)
(*                                                                         *)
(* History variables, read by the properties only: pin_log and set_log,    *)
(* the virDomainPinVcpu / virDomainSetMemory calls of the running cycle;   *)
(* stderr, what main has printed; fault, the operation whose failure ended *)
(* the run; released, what virt_deinit has released, in order (and the     *)
(* same three with the prefix m for the coordinator).                      *)
(***************************************************************************)
EXTENDS Integers, Sequences, FiniteSets, TLC

----------------------------------------------------------------------------
(* unsigned long long arithmetic (modulo 2^64)                             *)

NLimbs == 8
LimbBase == 256
MaxNative == 2147483647
\* a factor or divisor below SmallLimit is applied limb by limb in native
\* integers: 255 * (SmallLimit - 1) + (SmallLimit - 1) <= MaxNative
SmallLimit == 8388608

Limbs == 1..NLimbs

\* the eight limbs F(1), ..., F(8) as an explicit tuple (each limb is computed
\* when the tuple is built)
Tup8(F(_)) == << F(1), F(2), F(3), F(4), F(5), F(6), F(7), F(8) >>

\* the 64-bit value of a natural number below 2^31
U64(n) ==
    << n % 256, (n \div 256) % 256, (n \div 65536) % 256,
       (n \div 16777216) % 256, 0, 0, 0, 0 >>

U64Zero == U64(0)

\* TRUE iff the value is below 2^31 (it fits a native integer of TLC)
U64IsSmall(a) == a[4] < 128 /\ \A i \in 5..NLimbs : a[i] = 0

\* the natural number of a value below 2^31
U64ToNat(a) == a[1] + 256 * a[2] + 65536 * a[3] + 16777216 * a[4]

\* limbs i..NLimbs of a + b + carry, appended to acc; every partial result is
\* bound as a value before the next limb is computed
RECURSIVE U64AddFrom(_, _, _, _, _)
U64AddFrom(a, b, i, carry, acc) ==
    IF i > NLimbs THEN acc
    ELSE CHOOSE r \in { U64AddFrom(a, b, i + 1, s \div LimbBase,
                                    Append(acc, s % LimbBase)) :
                          s \in { a[i] + b[i] + carry } } : TRUE

\* a + b modulo 2^64
U64Add(a, b) == U64AddFrom(a, b, 1, 0, << >>)

\* the one's complement of a
U64Not(a) == LET F(i) == (LimbBase - 1) - a[i] IN Tup8(F)

\* a - b modulo 2^64 (unsigned wrap-around)
U64Sub(a, b) == U64AddFrom(a, U64Not(b), 1, 1, << >>)

RECURSIVE U64LessFrom(_, _, _)
U64LessFrom(a, b, i) ==
    IF i < 1 THEN FALSE
    ELSE IF a[i] # b[i] THEN a[i] < b[i]
    ELSE U64LessFrom(a, b, i - 1)

\* a < b as unsigned 64-bit values
U64Less(a, b) == U64LessFrom(a, b, NLimbs)

\* a * LimbBase^k modulo 2^64
U64ShiftLimbs(a, k) == LET F(i) == IF i - k >= 1 THEN a[i - k] ELSE 0 IN Tup8(F)

RECURSIVE U64MulLimbFrom(_, _, _, _, _)
U64MulLimbFrom(a, d, i, carry, acc) ==
    IF i > NLimbs THEN acc
    ELSE CHOOSE r \in { U64MulLimbFrom(a, d, i + 1, s \div LimbBase,
                                        Append(acc, s % LimbBase)) :
                          s \in { a[i] * d + carry } } : TRUE

RECURSIVE U64MulFrom(_, _, _, _)
U64MulFrom(a, b, k, acc) ==
    IF k > NLimbs THEN acc
    ELSE CHOOSE r \in { U64MulFrom(a, b, k + 1, s) :
                          s \in { U64Add(acc, U64ShiftLimbs(
                                      U64MulLimbFrom(a, b[k], 1, 0, << >>), k - 1)) } } : TRUE

\* TRUE iff the value is below SmallLimit
U64IsTiny(a) == a[3] < 128 /\ \A i \in 4..NLimbs : a[i] = 0

\* a * b modulo 2^64
U64Mul(a, b) ==
    IF U64IsSmall(a) /\ U64IsSmall(b)
       /\ (U64ToNat(b) = 0 \/ U64ToNat(a) <= MaxNative \div U64ToNat(b))
    THEN U64(U64ToNat(a) * U64ToNat(b))
    ELSE IF U64IsTiny(b) THEN U64MulLimbFrom(a, U64ToNat(b), 1, 0, << >>)
    ELSE IF U64IsTiny(a) THEN U64MulLimbFrom(b, U64ToNat(a), 1, 0, << >>)
    ELSE U64MulFrom(a, b, 1, U64Zero)

\* 2 * a + bit modulo 2^64
U64Shl1(a, bit) ==
    LET F(i) == ((2 * a[i]) % LimbBase) + (IF i = 1 THEN bit ELSE a[i - 1] \div 128)
    IN  Tup8(F)

\* bit k (0..63) of a
U64Bit(a, k) ==
    LET l == a[(k \div 8) + 1]
        p == k % 8
        w == CASE p = 0 -> 1 [] p = 1 -> 2 [] p = 2 -> 4 [] p = 3 -> 8
               [] p = 4 -> 16 [] p = 5 -> 32 [] p = 6 -> 64 [] OTHER -> 128
    IN  (l \div w) % 2

\* one step of shift-and-subtract long division: << remainder, quotient >>
U64DivStep(a, b, k, rem, quo) ==
    CHOOSE st \in { IF U64Less(r1, b) THEN << r1, U64Shl1(quo, 0) >>
                                      ELSE << U64Sub(r1, b), U64Shl1(quo, 1) >> :
                     r1 \in { U64Shl1(rem, U64Bit(a, k)) } } : TRUE

\* shift-and-subtract long division; the divisor is below 2^63
RECURSIVE U64DivFrom(_, _, _, _, _)
U64DivFrom(a, b, k, rem, quo) ==
    IF k < 0 THEN quo
    ELSE CHOOSE q \in { U64DivFrom(a, b, k - 1, st[1], st[2]) :
                          st \in { U64DivStep(a, b, k, rem, quo) } } : TRUE

\* short division by d < SmallLimit, from the top limb down; acc collects
\* the quotient limbs, most significant first
RECURSIVE U64DivShortFrom(_, _, _, _, _)
U64DivShortFrom(a, d, i, rem, acc) ==
    IF i < 1
    THEN << acc[8], acc[7], acc[6], acc[5], acc[4], acc[3], acc[2], acc[1] >>
    ELSE CHOOSE r \in { U64DivShortFrom(a, d, i - 1, s % d, Append(acc, s \div d)) :
                          s \in { rem * LimbBase + a[i] } } : TRUE

\* a / b, truncating (b # 0)
U64Div(a, b) ==
    IF U64IsSmall(a) /\ U64IsSmall(b)
    THEN U64(U64ToNat(a) \div U64ToNat(b))
    ELSE IF U64IsTiny(b) THEN U64DivShortFrom(a, U64ToNat(b), NLimbs, 0, << >>)
    ELSE U64DivFrom(a, b, 63, U64Zero, U64Zero)

\* the 64-bit value an int converts to (negative values wrap modulo 2^64)
U64FromInt(n) == IF n >= 0 THEN U64(n) ELSE U64Sub(U64Zero, U64(-n))

\* conversion of a 64-bit value to unsigned int: the low 32 bits
U64ToU32(a) == << a[1], a[2], a[3], a[4], 0, 0, 0, 0 >>

\* conversion of a 64-bit value to int: the low 32 bits, two's complement
U64ToInt32(a) ==
    IF a[4] < 128 THEN U64ToNat(U64ToU32(a))
    ELSE -(U64ToNat(U64ToU32(U64Sub(U64Zero, U64ToU32(a)))))

----------------------------------------------------------------------------
(* VCPU scheduler: constants of vcpu_scheduler_defs.h                      *)

VCPU_SCHEDULER_PCPU_HIGH_THRESHOLD == 90
VCPU_SCHEDULER_PCPU_TGT == 80
VCPU_SCHEDULER_PCPU_LOW_THRESHOLD == 70

EXIT_SUCCESS == 0
EXIT_FAILURE == 1
VCPU_SCHEDULER_CONN_ERROR == -1
VCPU_SCHEDULER_NO_DOMAINS == -2
VCPU_SCHEDULER_DOMAIN_LIST_ERROR == -3
VCPU_SCHEDULER_NOMEM == -4
VCPU_SCHEDULER_DOMAIN_INFO_ERROR == -5
VCPU_SCHEDULER_PCPU_IDLE_ERROR == -6
VCPU_SCHEDULER_SEC_TO_NANOSECS == 1000000000

\* what a failing libvirt call (virDomainPinVcpu, virNodeGetCPUStats) returns
VIR_ERROR == -1

\* the NULL pointer (vCPUs and pCPUs are named by their table index, from 0)
NULL == -1

\* the initial best delta of the best-fit search
VCPU_BEST_DELTA_INIT == 100

----------------------------------------------------------------------------
(* bounds and sampled inputs of the VCPU scheduler                         *)

\* at most MaxDomains active guests and MaxPcpus physical CPUs
MaxDomains == 3
MaxPcpus == 2

\* <time interval> of the command line, in seconds
cycle_time == 1

\* differences pcpu_idle - last_time (ns) the host reports for a pCPU in a
\* cycle: utilizations 95, 80 and 30
PcpuIdleDeltas == {50000000, 200000000, 700000000}

\* differences info.cpuTime - last_time (ns) a guest reports in a cycle:
\* utilizations 5 and 40
VcpuTimeDeltas == {50000000, 400000000}

----------------------------------------------------------------------------
(* VCPU scheduler: state                                                   *)

VARIABLES
    pc,              \* control point of the scheduler process
    status,          \* main's / scheduler's status
    virt_info,       \* VIRT_INFO: num_domains, num_pcpus, the two masks
    pcpu_stats,      \* PCPU_STATS table, indexed 0 .. num_pcpus-1
    vcpu_stats,      \* VCPU_STATS table, indexed 0 .. num_domains-1
    index,           \* loop index of vcpu_stats_init
    pcpu_low_mask,   \* vcpu_pinning_adjust's local copy of the low mask
    env,             \* the host: the counter differences it can report
    pin_log,         \* history: the virDomainPinVcpu calls made so far by the
                     \* running vcpu_pinning_adjust (empty outside of it)
    sampled,         \* history: the counter differences read in this cycle
    stderr,          \* history: what main has printed to stderr
    fault,           \* history: the operation whose failure ended the run
    released         \* history: what virt_deinit has released, in order

\* the history of a run of the scheduler
cpu_hist == << stderr, fault, released >>

cpu_vars == << pc, status, virt_info, pcpu_stats, vcpu_stats, index,
               pcpu_low_mask, env, pin_log, sampled, cpu_hist >>

\* memory coordinator (its own process; declared here so that every action
\* of one daemon can leave the other daemon's state alone)
VARIABLES
    mpc,             \* control point of the coordinator process
    mstatus,         \* main's / coordinator's / vm_memory_adjust's status
    mem_virt_info,   \* VIRT_INFO of memory_coordinator_defs.h
    vm_mem_info,     \* VM_MEM_INFO table, indexed 0 .. num_domains-1
    menv,            \* the host and guests: the values they can report
    set_log,         \* history: the virDomainSetMemory calls made so far by
                     \* the running vm_memory_adjust (empty outside of it)
    mstderr,         \* history: what main has printed to stderr
    mfault,          \* history: the operation whose failure ended the run
    mreleased        \* history: what virt_deinit has released, in order

\* the history of a run of the coordinator
mem_hist == << mstderr, mfault, mreleased >>

mem_vars == << mpc, mstatus, mem_virt_info, vm_mem_info, menv, set_log,
               mem_hist >>

vars == << cpu_vars, mem_vars >>

\* the coordinator before main runs: file-scope statics are zero
InitMemState ==
    /\ mpc = "main"
    /\ mstatus = EXIT_FAILURE
    /\ mem_virt_info = [conn |-> "none", domain_list |-> 0,
                        num_domains |-> 0, host_free_mem |-> U64Zero,
                        host_total_mem |-> U64Zero, host_tgt_mem |-> U64Zero,
                        high_mem_mask |-> {}, low_mem_mask |-> {}]
    /\ vm_mem_info = << >>
    /\ set_log = << >>
    /\ mstderr = << >>
    /\ mfault = "none"
    /\ mreleased = << >>

\* the lines main prints to stderr: the usage text, or the error code
Usage == [text |-> "Usage", code |-> 0]
ExitErrorCode(code) == [text |-> "Exit error code", code |-> code]

\* mutant of DeinitReleases: the last handle of the list is left
RECURSIVE DeinitReleases_LeavesOne(_)
DeinitReleases_LeavesOne(n) ==
    IF n <= 1 THEN << "conn" >>
    ELSE << "domain" >> \o DeinitReleases_LeavesOne(n - 1)

\* virt_deinit with num_domains = n: virDomainFree for the handles n-1 .. 0
\* of the list, then virConnectClose
RECURSIVE DeinitReleases(_)
DeinitReleases(n) ==
    IF n <= 0 THEN << "conn" >> ELSE << "domain" >> \o DeinitReleases(n - 1)

\* the number of guest handles among the things released
HandlesIn(rel) == Cardinality({ k \in 1..Len(rel) : rel[k] = "domain" })

Abs(n) == IF n < 0 THEN -n ELSE n

\* the smallest element of a non-empty set of bit positions
MinOf(S) == CHOOSE x \in S : \A y \in S : x <= y

\* LOW_BIT_GET32: position of the lowest set bit of a mask
LOW_BIT_GET32(value32) == MinOf(value32)

\* scheduler(): ns_cycle_time = cycle_time * SEC_TO_NANOSECS, the product
\* taken in unsigned int and widened to unsigned long long
NsCycleTimeOf(seconds) ==
    U64ToU32(U64Mul(U64(seconds), U64(VCPU_SCHEDULER_SEC_TO_NANOSECS)))

\* ns_cycle_time of a scheduler started with <time interval> = cycle_time
ns_cycle_time == NsCycleTimeOf(cycle_time)

\* collect_pcpu_stats: 100 - ((pcpu_idle - last_time) * 100) / ns_cycle_time,
\* evaluated in unsigned long long and stored in an int
PcpuUtilFor(idle_delta, ns) ==
    U64ToInt32(U64Sub(U64(100),
        U64Div(U64Mul(U64FromInt(idle_delta), U64(100)), ns)))

PcpuUtilOf(idle_delta) == PcpuUtilFor(idle_delta, ns_cycle_time)

\* collect_vcpu_stats: (int)(((cpuTime - last_time) * 100) / ns_cycle_time)
VcpuUtilFor(time_delta, ns) ==
    U64ToInt32(U64Div(U64Mul(U64FromInt(time_delta), U64(100)), ns))

VcpuUtilOf(time_delta) == VcpuUtilFor(time_delta, ns_cycle_time)

\* the utilizations the guests of a closed-loop host demand, in percent
DemandSamples == {10, 45, 50}

\* nanoseconds of one percent of a cycle
PercentNs == (cycle_time * VCPU_SCHEDULER_SEC_TO_NANOSECS) \div 100

\* closed-loop host: the differences a pCPU and a guest can report
ClosedIdleDeltas == { p * PercentNs : p \in 0..100 }
ClosedTimeDeltas == { p * PercentNs : p \in DemandSamples }

\* differences a host can also report: sleep(cycle_time) returns late, so
\* that a pCPU was idle, or a guest ran, for longer than ns_cycle_time; and a
\* counter that is smaller than the value read in the cycle before (a guest
\* that was restarted counts its cpuTime from 0 again)
LateIdleDelta == 1200000000
LateTimeDelta == 1500000000
RegressedDelta == -100000000

\* a busy and an idle pCPU; a late and a regressed idle counter
WideIdleDeltas == {50000000, 700000000, LateIdleDelta, RegressedDelta}

\* a guest at 40 %; a late and a regressed cpuTime
WideTimeDeltas == {400000000, LateTimeDelta, RegressedDelta}

\* the utilizations of the sampled differences, computed once
PcpuUtilTable ==
    [d \in PcpuIdleDeltas \cup ClosedIdleDeltas \cup WideIdleDeltas |->
        PcpuUtilOf(d)]
VcpuUtilTable ==
    [d \in VcpuTimeDeltas \cup ClosedTimeDeltas \cup WideTimeDeltas |->
        VcpuUtilOf(d)]

\* the intervals a scheduler is started with when the command line is an
\* input (seconds = atoi(argv[1]), 1 .. MaxSeconds), and the differences
\* its host reports in a cycle: a pCPU idle for 0.05 s, 0.5 s or 1 s, a
\* guest running for 0.5 s
MaxSeconds == 5
CycleSeconds == 1..MaxSeconds
CycleIdleDeltas == {50000000, 500000000, 1000000000}
CycleTimeDeltas == {500000000}

\* the utilizations of those differences for each interval, computed once
CyclePcpuUtilTable ==
    [T \in CycleSeconds |->
        [d \in CycleIdleDeltas |-> PcpuUtilFor(d, NsCycleTimeOf(T))]]
CycleVcpuUtilTable ==
    [T \in CycleSeconds |->
        [d \in CycleTimeDeltas |-> VcpuUtilFor(d, NsCycleTimeOf(T))]]

\* mutant of InitialPcpuIndex: off by one
InitialPcpuIndex_OffByOne(i, num_pcpus) == (i + 1) % num_pcpus

\* vcpu_stats_init: the pCPU guest index is pinned to at start
InitialPcpuIndex(i, num_pcpus) == i % num_pcpus

\* mutant of PcpuMasksReset: the masks of the previous cycle are kept
PcpuMasksReset_Kept(info) ==
    [high |-> info.pcpu_high_mask, low |-> info.pcpu_low_mask]

\* collect_pcpu_stats: both masks are reset before each new collection
PcpuMasksReset(info) == [high |-> {}, low |-> {}]

----------------------------------------------------------------------------
(* VCPU scheduler: pinning primitives                                      *)
(* The two tables are passed and returned as a record [v |-> vcpu table,   *)
(* p |-> pcpu table]; assignments are applied in the order of the code.    *)

\* mutant of vcpu_unpin_from_pcpu: the head is not moved off a removed vCPU
vcpu_unpin_from_pcpu_StaleHead(t, vcpu, pcpu) ==
    IF t.v[vcpu].pcpu # NULL /\ t.v[vcpu].pcpu = pcpu
    THEN LET p1 == [t.p EXCEPT ![pcpu].num_pinned = @ - 1]
             only == t.v[vcpu].prev = vcpu
             v1 == [t.v EXCEPT ![t.v[vcpu].prev].next = t.v[vcpu].next]
             v2 == [v1 EXCEPT ![v1[vcpu].next].prev = v1[vcpu].prev]
             p2 == IF only THEN [p1 EXCEPT ![pcpu].head = NULL] ELSE p1
             v3 == IF only THEN t.v ELSE v2
         IN  [v |-> [v3 EXCEPT ![vcpu].next = NULL, ![vcpu].prev = NULL],
              p |-> p2]
    ELSE t

\* vcpu_unpin_from_pcpu(vcpu, pcpu); pcpu may be NULL
vcpu_unpin_from_pcpu(t, vcpu, pcpu) ==
    IF t.v[vcpu].pcpu # NULL /\ t.v[vcpu].pcpu = pcpu
    THEN LET p1 == [t.p EXCEPT ![pcpu].num_pinned = @ - 1]
             only == t.v[vcpu].prev = vcpu
             \* vcpu->prev->next = vcpu->next
             v1 == [t.v EXCEPT ![t.v[vcpu].prev].next = t.v[vcpu].next]
             \* vcpu->next->prev = vcpu->prev
             v2 == [v1 EXCEPT ![v1[vcpu].next].prev = v1[vcpu].prev]
             p2 == IF only THEN [p1 EXCEPT ![pcpu].head = NULL]
                   ELSE IF p1[pcpu].head = vcpu
                        THEN [p1 EXCEPT ![pcpu].head = v2[vcpu].next]
                        ELSE p1
             v3 == IF only THEN t.v ELSE v2
         IN  [v |-> [v3 EXCEPT ![vcpu].next = NULL, ![vcpu].prev = NULL],
              p |-> p2]
    ELSE t

\* mutant of vcpu_pin_on_pcpu: the count of the old pCPU is not decremented
vcpu_pin_on_pcpu_NoDecrement(t, vcpu, pcpu) ==
    LET u0 == vcpu_unpin_from_pcpu(t, vcpu, t.v[vcpu].pcpu)
        u  == [v |-> u0.v,
               p |-> [i \in DOMAIN u0.p |-> [u0.p[i] EXCEPT !.num_pinned = t.p[i].num_pinned]]]
        v1 == [u.v EXCEPT ![vcpu].pcpu = pcpu]
        p1 == [u.p EXCEPT ![pcpu].num_pinned = @ + 1]
        head == p1[pcpu].head
    IN  IF head = NULL
        THEN [v |-> [v1 EXCEPT ![vcpu].next = vcpu, ![vcpu].prev = vcpu],
              p |-> [p1 EXCEPT ![pcpu].head = vcpu]]
        ELSE LET v2 == [v1 EXCEPT ![vcpu].prev = v1[head].prev]
                 v3 == [v2 EXCEPT ![v2[vcpu].prev].next = vcpu]
                 v4 == [v3 EXCEPT ![vcpu].next = head]
                 v5 == [v4 EXCEPT ![head].prev = vcpu]
             IN  [v |-> v5, p |-> p1]

\* mutant of vcpu_pin_on_pcpu: the new vCPU becomes the head of the ring
vcpu_pin_on_pcpu_AtHead(t, vcpu, pcpu) ==
    LET u  == vcpu_unpin_from_pcpu(t, vcpu, t.v[vcpu].pcpu)
        v1 == [u.v EXCEPT ![vcpu].pcpu = pcpu]
        p1 == [u.p EXCEPT ![pcpu].num_pinned = @ + 1]
        head == p1[pcpu].head
    IN  IF head = NULL
        THEN [v |-> [v1 EXCEPT ![vcpu].next = vcpu, ![vcpu].prev = vcpu],
              p |-> [p1 EXCEPT ![pcpu].head = vcpu]]
        ELSE LET v2 == [v1 EXCEPT ![vcpu].prev = v1[head].prev]
                 v3 == [v2 EXCEPT ![v2[vcpu].prev].next = vcpu]
                 v4 == [v3 EXCEPT ![vcpu].next = head]
                 v5 == [v4 EXCEPT ![head].prev = vcpu]
             IN  [v |-> v5, p |-> [p1 EXCEPT ![pcpu].head = vcpu]]

\* the part of vcpu_pin_on_pcpu(vcpu, pcpu) that runs when virDomainPinVcpu
\* returned EXIT_SUCCESS
vcpu_pin_on_pcpu(t, vcpu, pcpu) ==
    LET u  == vcpu_unpin_from_pcpu(t, vcpu, t.v[vcpu].pcpu)
        v1 == [u.v EXCEPT ![vcpu].pcpu = pcpu]
        p1 == [u.p EXCEPT ![pcpu].num_pinned = @ + 1]
        head == p1[pcpu].head
    IN  IF head = NULL
        THEN [v |-> [v1 EXCEPT ![vcpu].next = vcpu, ![vcpu].prev = vcpu],
              p |-> [p1 EXCEPT ![pcpu].head = vcpu]]
        ELSE LET \* vcpu->prev = pcpu->head->prev
                 v2 == [v1 EXCEPT ![vcpu].prev = v1[head].prev]
                 \* vcpu->prev->next = vcpu
                 v3 == [v2 EXCEPT ![v2[vcpu].prev].next = vcpu]
                 \* vcpu->next = pcpu->head
                 v4 == [v3 EXCEPT ![vcpu].next = head]
                 \* pcpu->head->prev = vcpu
                 v5 == [v4 EXCEPT ![head].prev = vcpu]
             IN  [v |-> v5, p |-> p1]

\* mutant of PinCall: the tables are relinked whatever virDomainPinVcpu
\* returned
PinCall_Unchecked(t, vcpu, pcpu, pin) == vcpu_pin_on_pcpu(t, vcpu, pcpu)

\* vcpu_pin_on_pcpu(vcpu, pcpu) when virDomainPinVcpu returns pin: the tables
\* are touched under "if (status == EXIT_SUCCESS)" only
PinCall(t, vcpu, pcpu, pin) ==
    IF pin = EXIT_SUCCESS THEN vcpu_pin_on_pcpu(t, vcpu, pcpu) ELSE t

----------------------------------------------------------------------------
(* VCPU scheduler: best-fit search of vcpu_pinning_adjust                  *)

\* mutant of BestFitVisit: "<=" for "<", so the last of equal fits wins
BestFitVisit_LastWins(vs, ps, vcpu, pcpu_low, best) ==
    LET new_pcpu_util == vs[vcpu].cpu_util + ps[pcpu_low].cpu_util
        vcpu_delta == Abs(VCPU_SCHEDULER_PCPU_TGT - new_pcpu_util)
    IN  IF vcpu_delta <= best.delta
           /\ new_pcpu_util < VCPU_SCHEDULER_PCPU_HIGH_THRESHOLD
        THEN [vcpu |-> vcpu, delta |-> vcpu_delta]
        ELSE best

\* mutant of BestFitVisit: the projection is not held below the high
\* threshold
BestFitVisit_NoCeiling(vs, ps, vcpu, pcpu_low, best) ==
    LET new_pcpu_util == vs[vcpu].cpu_util + ps[pcpu_low].cpu_util
        vcpu_delta == Abs(VCPU_SCHEDULER_PCPU_TGT - new_pcpu_util)
    IN  IF vcpu_delta < best.delta
        THEN [vcpu |-> vcpu, delta |-> vcpu_delta]
        ELSE best

\* one pass of the do-while body for vcpu: the new best [vcpu, delta]
BestFitVisit(vs, ps, vcpu, pcpu_low, best) ==
    LET new_pcpu_util == vs[vcpu].cpu_util + ps[pcpu_low].cpu_util
        vcpu_delta == Abs(VCPU_SCHEDULER_PCPU_TGT - new_pcpu_util)
    IN  IF vcpu_delta < best.delta
           /\ new_pcpu_util < VCPU_SCHEDULER_PCPU_HIGH_THRESHOLD
        THEN [vcpu |-> vcpu, delta |-> vcpu_delta]
        ELSE best

\* the do-while over the ring of a high pCPU, from vcpu until back at head
RECURSIVE BestFitRing(_, _, _, _, _, _)
BestFitRing(vs, ps, vcpu, head, pcpu_low, best) ==
    CHOOSE r \in
        { IF vs[vcpu].next = head THEN b
          ELSE BestFitRing(vs, ps, vs[vcpu].next, head, pcpu_low, b) :
          b \in { BestFitVisit(vs, ps, vcpu, pcpu_low, best) } } : TRUE

\* the inner while over the local copy of the high mask
RECURSIVE BestFitHigh(_, _, _, _, _)
BestFitHigh(vs, ps, high_mask, pcpu_low, best) ==
    IF high_mask = {} THEN best
    ELSE CHOOSE r \in
        { BestFitHigh(vs, ps, high_mask \ {LOW_BIT_GET32(high_mask)}, pcpu_low, b) :
          b \in { BestFitRing(vs, ps, ps[LOW_BIT_GET32(high_mask)].head,
                              ps[LOW_BIT_GET32(high_mask)].head, pcpu_low, best) } } : TRUE

\* best_vcpu after the inner while (NULL when no vCPU was admitted)
BestVcpu(vs, ps, high_mask, pcpu_low) ==
    BestFitHigh(vs, ps, high_mask, pcpu_low,
                [vcpu |-> NULL, delta |-> VCPU_BEST_DELTA_INIT]).vcpu

----------------------------------------------------------------------------
(* VCPU scheduler: sampling and classification                             *)

\* the command line is an input of this run: env.seconds is its interval
CycleGiven == "seconds" \in DOMAIN env

\* the divisor of the two utilization formulas in this run
NsCycleTimeUsed ==
    IF CycleGiven THEN NsCycleTimeOf(env.seconds) ELSE ns_cycle_time

\* cpu_util of a pCPU whose idle counter advanced by idle_delta
PcpuUtilSampled(idle_delta) ==
    IF CycleGiven THEN CyclePcpuUtilTable[env.seconds][idle_delta]
    ELSE IF idle_delta \in DOMAIN PcpuUtilTable
         THEN PcpuUtilTable[idle_delta] ELSE PcpuUtilOf(idle_delta)

\* cpu_util of a guest whose cpuTime advanced by time_delta
VcpuUtilSampled(time_delta) ==
    IF CycleGiven THEN CycleVcpuUtilTable[env.seconds][time_delta]
    ELSE IF time_delta \in DOMAIN VcpuUtilTable
         THEN VcpuUtilTable[time_delta] ELSE VcpuUtilOf(time_delta)

\* mutant of PcpuClassify: the num_pinned > 1 test is left out
PcpuClassify_AnyPinned(c, i, idle_delta) ==
    LET util == PcpuUtilSampled(idle_delta)
        p1 == [c.p EXCEPT ![i].cpu_util = util]
    IN  IF util > VCPU_SCHEDULER_PCPU_HIGH_THRESHOLD
        THEN [p |-> p1, high |-> c.high \cup {i}, low |-> c.low]
        ELSE IF util < VCPU_SCHEDULER_PCPU_LOW_THRESHOLD
             THEN [p |-> p1, high |-> c.high, low |-> c.low \cup {i}]
             ELSE [p |-> p1, high |-> c.high, low |-> c.low]

\* body of the for loop of collect_pcpu_stats for one pCPU whose reads
\* succeeded; c = [p |-> pcpu table, high |-> high mask, low |-> low mask]
PcpuClassify(c, i, idle_delta) ==
    LET util == PcpuUtilSampled(idle_delta)
        p1 == [c.p EXCEPT ![i].cpu_util = util]
    IN  IF util > VCPU_SCHEDULER_PCPU_HIGH_THRESHOLD
        THEN IF p1[i].num_pinned > 1
             THEN [p |-> p1, high |-> c.high \cup {i}, low |-> c.low]
             ELSE [p |-> p1, high |-> c.high, low |-> c.low]
        ELSE IF util < VCPU_SCHEDULER_PCPU_LOW_THRESHOLD
             THEN [p |-> p1, high |-> c.high, low |-> c.low \cup {i}]
             ELSE [p |-> p1, high |-> c.high, low |-> c.low]

\* the host is a closed loop: each guest runs for env.demand[g] percent of
\* every cycle, and a pCPU is idle for what its pinned guests leave of it
ClosedLoop == "demand" \in DOMAIN env

\* closed loop: the percentage of a cycle the guests 0 .. g pinned to pCPU i
\* ask for
RECURSIVE DemandOn(_, _)
DemandOn(i, g) ==
    IF g < 0 THEN 0
    ELSE (IF vcpu_stats[g].pcpu = i THEN env.demand[g] ELSE 0) + DemandOn(i, g - 1)

\* the differences pcpu_idle - last_time virNodeGetCPUStats can report for
\* pCPU i in this cycle
PcpuIdleOf(i) ==
    IF ClosedLoop
    THEN LET busy == DemandOn(i, virt_info.num_domains - 1)
         IN  { d \in env.idle :
                 d = (IF busy > 100 THEN 0 ELSE 100 - busy) * PercentNs }
    ELSE env.idle

\* the differences info.cpuTime - last_time virDomainGetVcpus can report for
\* guest g in this cycle
VcpuTimeOf(g) ==
    IF ClosedLoop
    THEN { d \in env.time : d = env.demand[g] * PercentNs }
    ELSE env.time

\* the for loop of collect_pcpu_stats over pCPUs i .. upto-1
RECURSIVE CollectPcpuLoop(_, _, _, _)
CollectPcpuLoop(c, i, upto, deltas) ==
    IF i >= upto THEN c
    ELSE CHOOSE r \in { CollectPcpuLoop(c1, i + 1, upto, deltas) :
                        c1 \in { PcpuClassify(c, i, deltas[i]) } } : TRUE

\* the for loop of collect_vcpu_stats over guests 0 .. upto-1
CollectVcpuLoop(vs, upto, deltas) ==
    [g \in DOMAIN vs |->
        IF g < upto
        THEN [vs[g] EXCEPT !.cpu_util =
                 VcpuUtilSampled(deltas[g])]
        ELSE vs[g]]

----------------------------------------------------------------------------
(* VCPU scheduler: actions                                                 *)

\* state shared by every specification of the scheduler, the host aside
InitCpuState ==
    /\ pc = "main"
    /\ status = EXIT_FAILURE
    /\ virt_info = [conn |-> "none", domain_list |-> 0,
                    num_domains |-> 0, num_pcpus |-> 0,
                    pcpu_high_mask |-> {}, pcpu_low_mask |-> {}]
    /\ pcpu_stats = << >>
    /\ vcpu_stats = << >>
    /\ index = 0
    /\ pcpu_low_mask = {}
    /\ pin_log = << >>
    /\ sampled = [idle |-> << >>, time |-> << >>]
    /\ stderr = << >>
    /\ fault = "none"
    /\ released = << >>

InitCpu ==
    /\ InitCpuState
    /\ env = [idle |-> PcpuIdleDeltas, time |-> VcpuTimeDeltas]
    /\ InitMemState
    /\ menv = [vm |-> {}, host_free |-> {}, host_free_tick |-> {},
               host_total |-> {}, mem_max |-> {}]

\* main: the time interval argument is missing or converts to 0
MainUsage ==
    /\ pc = "main"
    /\ pc' = "exit"
    /\ UNCHANGED << status, virt_info, pcpu_stats, vcpu_stats, index,
                    pcpu_low_mask, env, pin_log >>
    /\ stderr' = Append(stderr, Usage)
    /\ UNCHANGED << fault, released >>
    /\ UNCHANGED sampled
    /\ UNCHANGED mem_vars

\* the setup errors virt_init can return before the first guest is pinned
VirtInitErrors ==
    { VCPU_SCHEDULER_CONN_ERROR, VCPU_SCHEDULER_DOMAIN_LIST_ERROR,
      VCPU_SCHEDULER_NO_DOMAINS, VIR_ERROR, VCPU_SCHEDULER_NOMEM,
      VCPU_SCHEDULER_PCPU_IDLE_ERROR }

\* the ways virt_init fails before the loop of vcpu_stats_init: the operation
\* that failed, the status returned, and what virt_info holds by then.
\* virConnectOpen; virConnectListAllDomains returning -1 or 0; then, with the
\* guests listed, virNodeGetCPUStats (in virt_init or pcpu_stats_init), a
\* calloc (params, pcpu_stats or vcpu_stats), pcpu_get_idle
VirtInitFailures ==
    { [fault |-> "conn", status |-> VCPU_SCHEDULER_CONN_ERROR,
       conn |-> "none", num_domains |-> 0, num_pcpus |-> 0],
      [fault |-> "domain_list", status |-> VCPU_SCHEDULER_DOMAIN_LIST_ERROR,
       conn |-> "open", num_domains |-> -1, num_pcpus |-> 0],
      [fault |-> "no_domains", status |-> VCPU_SCHEDULER_NO_DOMAINS,
       conn |-> "open", num_domains |-> 0, num_pcpus |-> 0] }
    \cup
    { [fault |-> f.fault, status |-> f.status, conn |-> "open",
       num_domains |-> N, num_pcpus |-> P] :
        f \in { [fault |-> "cpu_stats", status |-> VIR_ERROR],
                [fault |-> "nomem", status |-> VCPU_SCHEDULER_NOMEM],
                [fault |-> "pcpu_idle", status |-> VCPU_SCHEDULER_PCPU_IDLE_ERROR] },
        N \in 1..MaxDomains, P \in 1..MaxPcpus }

\* main -> virt_init fails before vcpu_stats_init's loop; main returns
VirtInitFail ==
    /\ pc = "main"
    /\ \E f \in VirtInitFailures :
        /\ f.status \in VirtInitErrors
        /\ status' = f.status
        /\ fault' = f.fault
        /\ virt_info' = [virt_info EXCEPT
                            !.conn = f.conn,
                            !.num_domains = f.num_domains,
                            !.domain_list = IF f.num_domains > 0
                                            THEN f.num_domains ELSE 0,
                            !.num_pcpus = f.num_pcpus]
    /\ pc' = "exit"
    /\ UNCHANGED << pcpu_stats, vcpu_stats, index, pcpu_low_mask, env, pin_log,
                    stderr, released >>
    /\ UNCHANGED sampled
    /\ UNCHANGED mem_vars

\* the numbers of active guests virConnectListAllDomains can return and of
\* pCPUs virNodeGetCPUMap can return
DomainCounts == IF "domains" \in DOMAIN env THEN env.domains ELSE 1..MaxDomains
PcpuCounts == IF "pcpus" \in DOMAIN env THEN env.pcpus ELSE 1..MaxPcpus

\* main -> virt_init: connection, guest list, pcpu_stats_init and the calloc
\* of vcpu_stats_init succeed for N guests and P pCPUs
VirtInit ==
    /\ pc = "main"
    /\ \E N \in DomainCounts, P \in PcpuCounts :
        /\ virt_info' = [conn |-> "open", domain_list |-> N,
                         num_domains |-> N, num_pcpus |-> P,
                         pcpu_high_mask |-> {}, pcpu_low_mask |-> {}]
        /\ pcpu_stats' = [i \in 0..(P - 1) |->
                            [id |-> i, cpumap |-> IF i < 8 THEN {i} ELSE {},
                             cpu_util |-> 0, num_pinned |-> 0, head |-> NULL]]
        /\ vcpu_stats' = [g \in 0..(N - 1) |->
                            [cpu_util |-> 0, pcpu |-> NULL,
                             next |-> NULL, prev |-> NULL]]
    /\ index' = 0
    /\ status' = EXIT_SUCCESS
    /\ pc' = "vcpu_stats_init"
    /\ UNCHANGED << pcpu_low_mask, env, pin_log >>
    /\ UNCHANGED cpu_hist
    /\ UNCHANGED sampled
    /\ UNCHANGED mem_vars

\* one iteration of the for loop of vcpu_stats_init: pin guest index to pCPU
\* index % num_pcpus, then read its initial cpuTime
VcpuStatsInit ==
    /\ pc = "vcpu_stats_init"
    /\ index < virt_info.num_domains
    /\ LET pcpu_index == InitialPcpuIndex(index, virt_info.num_pcpus)
       IN  \E pin \in {EXIT_SUCCESS, VIR_ERROR}, info_ok \in BOOLEAN :
            LET t == PinCall([v |-> vcpu_stats, p |-> pcpu_stats],
                             index, pcpu_index, pin)
                st == IF pin # EXIT_SUCCESS THEN pin
                      ELSE IF info_ok THEN EXIT_SUCCESS
                      ELSE VCPU_SCHEDULER_DOMAIN_INFO_ERROR
            IN  /\ vcpu_stats' = t.v
                /\ pcpu_stats' = t.p
                /\ status' = st
                /\ fault' = IF pin # EXIT_SUCCESS THEN "pin"
                            ELSE IF info_ok THEN fault ELSE "domain_info"
                /\ index' = index + 1
                /\ pc' = IF st # EXIT_SUCCESS THEN "exit"
                         ELSE IF index + 1 < virt_info.num_domains
                              THEN "vcpu_stats_init"
                              ELSE "sleep"
    /\ UNCHANGED << virt_info, pcpu_low_mask, env, pin_log >>
    /\ UNCHANGED << stderr, released >>
    /\ UNCHANGED sampled
    /\ UNCHANGED mem_vars

\* scheduler: sleep(cycle_time), then collect_pcpu_stats; a failing read of
\* pCPU fail_at ends the loop (fail_at = num_pcpus: every read succeeds)
CollectPcpuStats ==
    /\ pc = "sleep"
    /\ \E fail_at \in 0..virt_info.num_pcpus :
       \E deltas \in [0..(fail_at - 1) ->
                         UNION { PcpuIdleOf(i) : i \in 0..(fail_at - 1) }] :
       \E st \in (IF fail_at < virt_info.num_pcpus
                  THEN {VIR_ERROR, VCPU_SCHEDULER_PCPU_IDLE_ERROR}
                  ELSE {EXIT_SUCCESS}) :
         LET m == PcpuMasksReset(virt_info)
             c == CollectPcpuLoop([p |-> pcpu_stats, high |-> m.high, low |-> m.low],
                                  0, fail_at, deltas)
             failed == fail_at < virt_info.num_pcpus
         IN  /\ \A i \in 0..(fail_at - 1) : deltas[i] \in PcpuIdleOf(i)
             /\ pcpu_stats' = c.p
             /\ sampled' = [sampled EXCEPT !.idle = deltas]
             /\ virt_info' = [virt_info EXCEPT !.pcpu_high_mask = c.high,
                                               !.pcpu_low_mask = c.low]
             /\ status' = st
             /\ fault' = IF ~failed THEN fault
                         ELSE IF st = VCPU_SCHEDULER_PCPU_IDLE_ERROR
                              THEN "pcpu_idle" ELSE "cpu_stats"
             /\ pc' = IF failed THEN "virt_deinit" ELSE "collect_vcpu_stats"
    /\ UNCHANGED << vcpu_stats, index, pcpu_low_mask, env, pin_log >>
    /\ UNCHANGED << stderr, released >>
    /\ UNCHANGED mem_vars

\* mutant of AfterVcpuStats: the planner is called whatever the status
AfterVcpuStats_Always(st) == "vcpu_pinning_adjust"

\* scheduler: vcpu_pinning_adjust is called if the status of the sampling is
\* EXIT_SUCCESS; otherwise the loop ends and scheduler returns to main
AfterVcpuStats(st) ==
    IF st = EXIT_SUCCESS THEN "vcpu_pinning_adjust" ELSE "virt_deinit"

\* scheduler: collect_vcpu_stats, then entry of vcpu_pinning_adjust (the
\* local copy of the low mask is taken)
CollectVcpuStats ==
    /\ pc = "collect_vcpu_stats"
    /\ \E fail_at \in 0..virt_info.num_domains :
       \E deltas \in [0..(fail_at - 1) ->
                         UNION { VcpuTimeOf(g) : g \in 0..(fail_at - 1) }] :
         LET failed == fail_at < virt_info.num_domains
         IN  /\ \A g \in 0..(fail_at - 1) : deltas[g] \in VcpuTimeOf(g)
             /\ vcpu_stats' = CollectVcpuLoop(vcpu_stats, fail_at, deltas)
             /\ sampled' = [sampled EXCEPT !.time = deltas]
             /\ status' = IF failed THEN VCPU_SCHEDULER_DOMAIN_INFO_ERROR
                          ELSE EXIT_SUCCESS
             /\ fault' = IF failed THEN "domain_info" ELSE fault
             /\ pc' = AfterVcpuStats(status')
             /\ pcpu_low_mask' = IF failed THEN pcpu_low_mask
                                 ELSE virt_info.pcpu_low_mask
    /\ UNCHANGED << virt_info, pcpu_stats, index, env, pin_log >>
    /\ UNCHANGED << stderr, released >>
    /\ UNCHANGED mem_vars

\* mutant of LowMaskClear: the bit of the pCPU just handled is left set
LowMaskClear_Kept(low_mask, pcpu_low) == low_mask

\* vcpu_pinning_adjust: pcpu_low_mask &= ~(1 << pcpu_low)
LowMaskClear(low_mask, pcpu_low) == low_mask \ {pcpu_low}

\* mutant of HighMaskClear: the bit of the origin pCPU is left set
HighMaskClear_Kept(high_mask, id) == high_mask

\* vcpu_pinning_adjust: virt_info.pcpu_high_mask &= ~(1 << best_vcpu->pcpu->id)
HighMaskClear(high_mask, id) == high_mask \ {id}

\* the condition of the outer while of vcpu_pinning_adjust
PinningAdjustMore ==
    /\ pcpu_low_mask # {}
    /\ virt_info.pcpu_high_mask # {}
    /\ status = EXIT_SUCCESS

\* one iteration of the outer while of vcpu_pinning_adjust
PinningAdjust ==
    /\ pc = "vcpu_pinning_adjust"
    /\ PinningAdjustMore
    /\ LET pcpu_low == LOW_BIT_GET32(pcpu_low_mask)
           best_vcpu == BestVcpu(vcpu_stats, pcpu_stats,
                                 virt_info.pcpu_high_mask, pcpu_low)
       IN  /\ pcpu_low_mask' = LowMaskClear(pcpu_low_mask, pcpu_low)
           /\ IF best_vcpu # NULL
              THEN \E pin \in {EXIT_SUCCESS, VIR_ERROR} :
                    LET from == vcpu_stats[best_vcpu].pcpu
                        t == PinCall([v |-> vcpu_stats, p |-> pcpu_stats],
                                     best_vcpu, pcpu_low, pin)
                    IN  /\ virt_info' = [virt_info EXCEPT !.pcpu_high_mask =
                                            HighMaskClear(@, pcpu_stats[from].id)]
                        /\ vcpu_stats' = t.v
                        /\ pcpu_stats' = t.p
                        /\ status' = pin
                        /\ fault' = IF pin # EXIT_SUCCESS THEN "pin" ELSE fault
                        /\ pin_log' = Append(pin_log,
                              [vcpu |-> best_vcpu, from |-> from, to |-> pcpu_low,
                               cpumap |-> pcpu_stats[pcpu_low].cpumap, status |-> pin])
              ELSE UNCHANGED << virt_info, vcpu_stats, pcpu_stats, status, pin_log,
                                fault >>
    /\ UNCHANGED << pc, index, env >>
    /\ UNCHANGED << stderr, released >>
    /\ UNCHANGED sampled
    /\ UNCHANGED mem_vars

\* vcpu_pinning_adjust returns; scheduler loops while status is EXIT_SUCCESS
PinningAdjustReturn ==
    /\ pc = "vcpu_pinning_adjust"
    /\ ~PinningAdjustMore
    /\ pc' = IF status = EXIT_SUCCESS THEN "sleep" ELSE "virt_deinit"
    /\ pcpu_low_mask' = {}
    /\ pin_log' = << >>
    /\ sampled' = [idle |-> << >>, time |-> << >>]
    /\ UNCHANGED << status, virt_info, pcpu_stats, vcpu_stats, index, env >>
    /\ UNCHANGED cpu_hist
    /\ UNCHANGED mem_vars

\* main: virt_deinit after scheduler returned, then return status
VirtDeinit ==
    /\ pc = "virt_deinit"
    /\ LET rel == DeinitReleases(virt_info.num_domains)
       IN  /\ released' = released \o rel
           /\ virt_info' = [virt_info EXCEPT !.num_domains = 0,
                                             !.domain_list = @ - HandlesIn(rel),
                                             !.conn = "closed"]
    /\ pc' = "exit"
    /\ UNCHANGED << status, pcpu_stats, vcpu_stats, index, pcpu_low_mask,
                    env, pin_log, stderr, fault >>
    /\ UNCHANGED sampled
    /\ UNCHANGED mem_vars

NextCpu ==
    \/ MainUsage
    \/ VirtInitFail
    \/ VirtInit
    \/ VcpuStatsInit
    \/ CollectPcpuStats
    \/ CollectVcpuStats
    \/ PinningAdjust
    \/ PinningAdjustReturn
    \/ VirtDeinit

SpecCpu == InitCpu /\ [][NextCpu]_vars

----------------------------------------------------------------------------
(* memory coordinator: constants of memory_coordinator_defs.h              *)

MEM_COORD_AVAIL_HOST_LOW_PERCENT == 10
MEM_COORD_AVAIL_HOST_TGT_PERCENT == 15
MEM_COORD_AVAIL_VM_LOW_PERCENT == 25
MEM_COORD_AVAIL_VM_TGT_PERCENT == 30
MEM_COORD_AVAIL_VM_HIGH_PERCENT == 33

MEM_COORD_CONN_ERROR == -1
MEM_COORD_NO_DOMAINS == -2
MEM_COORD_DOMAIN_LIST_ERROR == -3
MEM_COORD_NOMEM == -4
MEM_COORD_DOMAIN_MEM_ERROR == -5
MEM_COORD_HOST_FREE_MEM_ERROR == -6

----------------------------------------------------------------------------
(* bounds and sampled inputs of the memory coordinator (all sizes in KiB)  *)

\* at most MaxVms active guests
MaxVms == 2

\* info.memory of virNodeGetInfo
HostTotalSamples == {8000000}

\* virNodeGetFreeMemory / MEM_COORD_KB_SIZE when the hungry pass reads it
\* again: plenty; exactly the host target; below the host target; below the
\* grant a hungry guest asks for
HostFreeSamples == {4000000, 1200000, 700000, 100000}

\* virNodeGetFreeMemory / MEM_COORD_KB_SIZE as virt_init and collect_mem_stats
\* read it (the value is read again before the hungry pass uses it)
HostFreeTickSamples == {4000000, 700000}

\* virDomainGetMaxMemory of a guest
MemMaxSamples == {2200000, 2500000}

\* virNodeGetFreeMemory returns 0 when it fails (virt_init tests for it)
HostFreeFailed == 0

\* a statistic virDomainMemoryStats did not report
Absent == -1

\* what virDomainMemoryStats reports for a guest: unused and actual balloon.
\* In order: 10 % available; more unused than balloon; a ratio above
\* 2^31 / 100; neither statistic reported.
VmSamples ==
    { [free |-> 200000, total |-> 2000000],
      [free |-> 2500000, total |-> 2000000],
      [free |-> 21474837, total |-> 1],
      [free |-> Absent, total |-> Absent] }

----------------------------------------------------------------------------
(* memory coordinator: the arithmetic of collect_mem_stats and             *)
(* vm_memory_adjust                                                        *)

\* a <= b as unsigned 64-bit values
U64Leq(a, b) == ~U64Less(b, a)

\* collect_mem_stats: (int)((100 * mem_free) / mem_total), mem_total > 0
PercentAvail(mem_free, mem_total) ==
    U64ToInt32(U64Div(U64Mul(U64(100), mem_free), mem_total))

\* collect_mem_stats: cap the percentage at 100
PercentCap(percent_avail) == IF percent_avail > 100 THEN 100 ELSE percent_avail

\* mutant of MemClassify: a guest at its maximum size still counts as low
MemClassify_NoMaxTest(c, i, s) ==
    LET r1 == [c.vm[i] EXCEPT
                 !.mem_total = IF s.total = Absent THEN @ ELSE U64(s.total),
                 !.mem_free = IF s.free = Absent THEN @ ELSE U64(s.free)]
    IN  IF r1.mem_total # U64Zero
        THEN LET pct == PercentCap(PercentAvail(r1.mem_free, r1.mem_total))
                 vm1 == [c.vm EXCEPT ![i] = [r1 EXCEPT !.percent_avail = pct]]
             IN  IF pct < MEM_COORD_AVAIL_VM_LOW_PERCENT
                 THEN [vm |-> vm1, high |-> c.high, low |-> c.low \cup {i}]
                 ELSE IF pct > MEM_COORD_AVAIL_VM_HIGH_PERCENT
                      THEN [vm |-> vm1, high |-> c.high \cup {i}, low |-> c.low]
                      ELSE [vm |-> vm1, high |-> c.high, low |-> c.low]
        ELSE [vm |-> [c.vm EXCEPT ![i] = r1], high |-> c.high, low |-> c.low]

\* body of the for loop of collect_mem_stats for guest i whose statistics
\* were read (num_stats > 0); c = [vm |-> VM_MEM_INFO table, high |-> high
\* mask, low |-> low mask], s = the reported statistics
MemClassify(c, i, s) ==
    LET r1 == [c.vm[i] EXCEPT
                 !.mem_total = IF s.total = Absent THEN @ ELSE U64(s.total),
                 !.mem_free = IF s.free = Absent THEN @ ELSE U64(s.free)]
    IN  IF r1.mem_total # U64Zero
        THEN LET pct == PercentCap(PercentAvail(r1.mem_free, r1.mem_total))
                 vm1 == [c.vm EXCEPT ![i] = [r1 EXCEPT !.percent_avail = pct]]
             IN  IF pct < MEM_COORD_AVAIL_VM_LOW_PERCENT
                    /\ U64Less(r1.mem_total, r1.mem_max)
                 THEN [vm |-> vm1, high |-> c.high, low |-> c.low \cup {i}]
                 ELSE IF pct > MEM_COORD_AVAIL_VM_HIGH_PERCENT
                      THEN [vm |-> vm1, high |-> c.high \cup {i}, low |-> c.low]
                      ELSE [vm |-> vm1, high |-> c.high, low |-> c.low]
        ELSE [vm |-> [c.vm EXCEPT ![i] = r1], high |-> c.high, low |-> c.low]

\* the for loop of collect_mem_stats over guests i .. upto-1
RECURSIVE CollectMemLoop(_, _, _, _)
CollectMemLoop(c, i, upto, samples) ==
    IF i >= upto THEN c
    ELSE CHOOSE r \in { CollectMemLoop(c1, i + 1, upto, samples) :
                        c1 \in { MemClassify(c, i, samples[i]) } } : TRUE

\* mutant of ExcessAdj: measured from the high threshold instead of the target
ExcessAdj_FromHigh(mem_total, percent_avail) ==
    U64Div(U64Mul(mem_total,
                  U64FromInt(percent_avail - MEM_COORD_AVAIL_VM_HIGH_PERCENT)),
           U64(100))

\* excess pass: mem_adj = (mem_total * (percent_avail - VM_TGT)) / 100
ExcessAdj(mem_total, percent_avail) ==
    U64Div(U64Mul(mem_total,
                  U64FromInt(percent_avail - MEM_COORD_AVAIL_VM_TGT_PERCENT)),
           U64(100))

\* mutant of HungryAdj: measured from the low threshold instead of the target
HungryAdj_FromLow(mem_total, percent_avail) ==
    U64Div(U64Mul(mem_total,
                  U64FromInt(MEM_COORD_AVAIL_VM_LOW_PERCENT - percent_avail)),
           U64(100))

\* hungry pass: mem_adj = (mem_total * (VM_TGT - percent_avail)) / 100
HungryAdj(mem_total, percent_avail) ==
    U64Div(U64Mul(mem_total,
                  U64FromInt(MEM_COORD_AVAIL_VM_TGT_PERCENT - percent_avail)),
           U64(100))

\* hungry pass: host_precent_free = ((host_free_mem - mem_adj) * 100) /
\* host_total_mem, computed in 64 bits and stored in an unsigned int
HostPercentFree(host_free_mem, mem_adj, host_total_mem) ==
    U64ToU32(U64Div(U64Mul(U64Sub(host_free_mem, mem_adj), U64(100)),
                    host_total_mem))

\* mutant of HostGuard: no test
HostGuard_None(host_precent_free) == TRUE

\* hungry pass: host_precent_free > MEM_COORD_AVAIL_HOST_LOW_PERCENT
HostGuard(host_precent_free) ==
    U64Less(U64(MEM_COORD_AVAIL_HOST_LOW_PERCENT), host_precent_free)

\* mutant of MemLimit: no limit
MemLimit_None(mem_total, mem_max) == mem_total

\* hungry pass: limit VM memory to maximum memory size
MemLimit(mem_total, mem_max) ==
    IF U64Less(mem_max, mem_total) THEN mem_max ELSE mem_total

\* mutant of FairReclaimed: the exact share, not the whole percentage
FairReclaimed_ExactShare(mem_total, mem_adj, host_total_mem) ==
    U64Sub(mem_total, U64Div(U64Mul(mem_adj, mem_total), host_total_mem))

\* mutant of FairReclaimed: every guest gives the whole shortfall
FairReclaimed_WholeShortfall(mem_total, mem_adj, host_total_mem) ==
    U64Sub(mem_total, mem_adj)

\* fair reclaim: mem_total - (mem_adj * ((100 * mem_total) / host_total)) / 100
FairReclaimed(mem_total, mem_adj, host_total_mem) ==
    U64Sub(mem_total,
           U64Div(U64Mul(mem_adj,
                         U64Div(U64Mul(U64(100), mem_total), host_total_mem)),
                  U64(100)))

\* virt_init: host_tgt_mem = (HOST_TGT * host_total_mem) / 100
HostTgtMem(host_total_mem) ==
    U64Div(U64Mul(U64(MEM_COORD_AVAIL_HOST_TGT_PERCENT), host_total_mem), U64(100))

----------------------------------------------------------------------------
(* memory coordinator: actions                                             *)

InitMem ==
    /\ InitMemState
    /\ menv = [vm |-> VmSamples, host_free |-> HostFreeSamples,
               host_free_tick |-> HostFreeTickSamples,
               host_total |-> HostTotalSamples, mem_max |-> MemMaxSamples]
    /\ InitCpuState
    /\ env = [idle |-> {}, time |-> {}]

\* main: the time interval argument is missing or converts to 0
MemMainUsage ==
    /\ mpc = "main"
    /\ mpc' = "exit"
    /\ UNCHANGED << mstatus, mem_virt_info, vm_mem_info, menv, set_log >>
    /\ mstderr' = Append(mstderr, Usage)
    /\ UNCHANGED << mfault, mreleased >>
    /\ UNCHANGED cpu_vars

\* the errors virt_init and vm_mem_info_init can return
MemVirtInitErrors ==
    { MEM_COORD_CONN_ERROR, MEM_COORD_DOMAIN_LIST_ERROR, MEM_COORD_NO_DOMAINS,
      MEM_COORD_HOST_FREE_MEM_ERROR, MEM_COORD_DOMAIN_MEM_ERROR,
      MEM_COORD_NOMEM, VIR_ERROR }

\* the ways virt_init and vm_mem_info_init fail: the operation that failed,
\* the status returned, and what virt_info holds by then. virConnectOpen;
\* virConnectListAllDomains returning -1 or 0; then, with the guests listed,
\* virNodeGetFreeMemory returning 0, virNodeGetInfo, calloc,
\* virDomainSetMemoryStatsPeriod, virDomainGetMaxMemory returning 0
MemVirtInitFailures ==
    { [fault |-> "conn", status |-> MEM_COORD_CONN_ERROR,
       conn |-> "none", num_domains |-> 0],
      [fault |-> "domain_list", status |-> MEM_COORD_DOMAIN_LIST_ERROR,
       conn |-> "open", num_domains |-> -1],
      [fault |-> "no_domains", status |-> MEM_COORD_NO_DOMAINS,
       conn |-> "open", num_domains |-> 0] }
    \cup
    { [fault |-> f.fault, status |-> f.status, conn |-> "open",
       num_domains |-> N] :
        f \in { [fault |-> "host_free", status |-> MEM_COORD_HOST_FREE_MEM_ERROR],
                [fault |-> "host_info", status |-> MEM_COORD_DOMAIN_MEM_ERROR],
                [fault |-> "nomem", status |-> MEM_COORD_NOMEM],
                [fault |-> "stats_period", status |-> VIR_ERROR],
                [fault |-> "max_memory", status |-> MEM_COORD_DOMAIN_MEM_ERROR] },
        N \in 1..MaxVms }

\* main -> virt_init fails; main prints the code and returns it
MemVirtInitFail ==
    /\ mpc = "main"
    /\ \E f \in MemVirtInitFailures :
        /\ f.status \in MemVirtInitErrors
        /\ mstatus' = f.status
        /\ mfault' = f.fault
        /\ mem_virt_info' = [mem_virt_info EXCEPT
                                !.conn = f.conn,
                                !.num_domains = f.num_domains,
                                !.domain_list = IF f.num_domains > 0
                                                THEN f.num_domains ELSE 0]
        /\ mstderr' = Append(mstderr, ExitErrorCode(f.status))
    /\ mpc' = "exit"
    /\ UNCHANGED << vm_mem_info, menv, set_log, mreleased >>
    /\ UNCHANGED cpu_vars

\* main -> virt_init and vm_mem_info_init succeed for N guests
MemVirtInit ==
    /\ mpc = "main"
    /\ \E N \in 1..MaxVms :
       \E hf \in menv.host_free_tick, ht \in menv.host_total :
       \E mx \in [0..(N - 1) -> menv.mem_max] :
        /\ hf # HostFreeFailed
        /\ mem_virt_info' = [conn |-> "open", domain_list |-> N,
                             num_domains |-> N, host_free_mem |-> U64(hf),
                             host_total_mem |-> U64(ht),
                             host_tgt_mem |-> HostTgtMem(U64(ht)),
                             high_mem_mask |-> {}, low_mem_mask |-> {}]
        /\ vm_mem_info' = [i \in 0..(N - 1) |->
                             [mem_free |-> U64Zero, mem_total |-> U64Zero,
                              mem_max |-> U64(mx[i]), percent_avail |-> 0]]
    /\ mstatus' = EXIT_SUCCESS
    /\ mpc' = "sleep"
    /\ UNCHANGED << menv, set_log >>
    /\ UNCHANGED mem_hist
    /\ UNCHANGED cpu_vars

\* the statistics guest i can report: the balloon is never above the
\* guest's maximum memory, and a guest that has reported its statistics once
\* reports them in every later cycle
VmSamplesOf(i) ==
    { s \in menv.vm :
        IF s.total = Absent
        THEN vm_mem_info[i].mem_total = U64Zero /\ vm_mem_info[i].mem_free = U64Zero
        ELSE U64Leq(U64(s.total), vm_mem_info[i].mem_max) }

\* coordinator: sleep(cycle_time), then collect_mem_stats; virDomainMemoryStats
\* of guest fail_at returns no statistics (fail_at = num_domains: none fails)
CollectMemStats ==
    /\ mpc = "sleep"
    /\ \E hf \in menv.host_free_tick :
       \E fail_at \in 0..mem_virt_info.num_domains :
       \E samples \in [0..(fail_at - 1) -> menv.vm] :
         /\ \A i \in 0..(fail_at - 1) : samples[i] \in VmSamplesOf(i)
         /\ LET failed == fail_at < mem_virt_info.num_domains
                c == CollectMemLoop([vm |-> vm_mem_info,
                                     high |-> mem_virt_info.high_mem_mask,
                                     low |-> mem_virt_info.low_mem_mask],
                                    0, fail_at, samples)
            IN  /\ vm_mem_info' = c.vm
                /\ mem_virt_info' = [mem_virt_info EXCEPT
                                        !.host_free_mem = U64(hf),
                                        !.high_mem_mask = c.high,
                                        !.low_mem_mask = c.low]
                /\ mstatus' = IF failed THEN MEM_COORD_DOMAIN_MEM_ERROR
                              ELSE EXIT_SUCCESS
                /\ mfault' = IF failed THEN "mem_stats" ELSE mfault
                /\ mpc' = IF failed THEN "virt_deinit" ELSE "vm_memory_adjust"
    /\ UNCHANGED << menv, set_log >>
    /\ UNCHANGED << mstderr, mreleased >>
    /\ UNCHANGED cpu_vars

\* mutant of ExcessMore: the first while goes on after a failed call
ExcessMore_IgnoresStatus ==
    mem_virt_info.high_mem_mask # {}

\* the condition of the first while of vm_memory_adjust
ExcessMore ==
    /\ mem_virt_info.high_mem_mask # {}
    /\ mstatus = EXIT_SUCCESS

\* mutant of LowMore: the second while is left with guests still in the mask
LowMore_Never == FALSE

\* the condition of the second while of vm_memory_adjust
LowMore ==
    /\ mem_virt_info.low_mem_mask # {}
    /\ mstatus = EXIT_SUCCESS

\* one iteration of the first while of vm_memory_adjust: shrink the lowest
\* guest of the high mask
VmMemoryAdjustExcess ==
    /\ mpc = "vm_memory_adjust"
    /\ ExcessMore
    /\ LET i == LOW_BIT_GET32(mem_virt_info.high_mem_mask)
           mem_adj == ExcessAdj(vm_mem_info[i].mem_total, vm_mem_info[i].percent_avail)
           new_total == U64Sub(vm_mem_info[i].mem_total, mem_adj)
       IN  \E set \in {EXIT_SUCCESS, VIR_ERROR} :
            /\ vm_mem_info' = [vm_mem_info EXCEPT ![i].mem_total = new_total]
            /\ mstatus' = set
            /\ mfault' = IF set # EXIT_SUCCESS THEN "set_memory" ELSE mfault
            /\ mem_virt_info' = [mem_virt_info EXCEPT !.high_mem_mask = @ \ {i}]
            /\ set_log' = Append(set_log,
                  [vm |-> i, kib |-> new_total, pass |-> "excess", status |-> set,
                   host_free |-> mem_virt_info.host_free_mem, adj |-> mem_adj])
    /\ UNCHANGED << mpc, menv >>
    /\ UNCHANGED << mstderr, mreleased >>
    /\ UNCHANGED cpu_vars

\* mutant of HungryMore: the second while does not wait for the first
HungryMore_Early ==
    /\ mpc = "vm_memory_adjust"
    /\ LowMore

\* the second while of vm_memory_adjust runs
HungryMore ==
    /\ mpc = "vm_memory_adjust"
    /\ ~ExcessMore
    /\ LowMore

\* hungry pass, guard passed: grow the lowest guest of the low mask
VmMemoryAdjustGrant ==
    /\ HungryMore
    /\ \E hf \in menv.host_free :
        LET i == LOW_BIT_GET32(mem_virt_info.low_mem_mask)
            mem_adj == HungryAdj(vm_mem_info[i].mem_total, vm_mem_info[i].percent_avail)
            host_precent_free == HostPercentFree(U64(hf), mem_adj,
                                                 mem_virt_info.host_total_mem)
            new_total == MemLimit(U64Add(vm_mem_info[i].mem_total, mem_adj),
                                  vm_mem_info[i].mem_max)
        IN  /\ HostGuard(host_precent_free)
            /\ \E set \in {EXIT_SUCCESS, VIR_ERROR} :
                /\ vm_mem_info' = [vm_mem_info EXCEPT ![i].mem_total = new_total]
                /\ mstatus' = set
                /\ mfault' = IF set # EXIT_SUCCESS THEN "set_memory" ELSE mfault
                /\ mem_virt_info' = [mem_virt_info EXCEPT
                                        !.host_free_mem = U64(hf),
                                        !.low_mem_mask = @ \ {i}]
                /\ set_log' = Append(set_log,
                      [vm |-> i, kib |-> new_total, pass |-> "grant", status |-> set,
                       host_free |-> U64(hf), adj |-> mem_adj])
    /\ UNCHANGED << mpc, menv >>
    /\ UNCHANGED << mstderr, mreleased >>
    /\ UNCHANGED cpu_vars

\* mutant of FairReclaimStatus: the result of the call becomes the status
FairReclaimStatus_Assigned(st, set) == set

\* fair reclaim: the result of virDomainSetMemory is dropped, status keeps
\* its value
FairReclaimStatus(st, set) == st

\* mutant of FairReclaimLowMask: the low mask is left as it is
FairReclaimLowMask_Kept(low_mem_mask) == low_mem_mask

\* fair reclaim: virt_info.low_mem_mask = 0
FairReclaimLowMask(low_mem_mask) == {}

\* the for loop of the fair reclaim over guests i .. num_domains-1, where
\* sets[i] is what virDomainSetMemory returns for guest i:
\* [vm |-> VM_MEM_INFO table, log |-> the calls made, status |-> status]
RECURSIVE FairReclaimLoop(_, _, _, _, _, _, _, _)
FairReclaimLoop(vm, log, st, i, upto, mem_adj, info, sets) ==
    IF i >= upto THEN [vm |-> vm, log |-> log, status |-> st]
    ELSE CHOOSE r \in
        { FairReclaimLoop([vm EXCEPT ![i].mem_total = t],
                          Append(log, [vm |-> i, kib |-> t, pass |-> "fair",
                                       status |-> sets[i],
                                       host_free |-> info.host_free_mem,
                                       adj |-> mem_adj]),
                          FairReclaimStatus(st, sets[i]),
                          i + 1, upto, mem_adj, info, sets) :
          t \in { FairReclaimed(vm[i].mem_total, mem_adj, info.host_total_mem) } } : TRUE

\* hungry pass, guard failed and the host is below its target: every guest
\* gives back its share, whatever virDomainSetMemory returns, and the low
\* mask is cleared
VmMemoryAdjustFairReclaim ==
    /\ HungryMore
    /\ \E hf \in menv.host_free :
       \E sets \in [0..(mem_virt_info.num_domains - 1) -> {EXIT_SUCCESS, VIR_ERROR}] :
        LET i == LOW_BIT_GET32(mem_virt_info.low_mem_mask)
            mem_adj == HungryAdj(vm_mem_info[i].mem_total, vm_mem_info[i].percent_avail)
            host_precent_free == HostPercentFree(U64(hf), mem_adj,
                                                 mem_virt_info.host_total_mem)
            info == [mem_virt_info EXCEPT !.host_free_mem = U64(hf)]
            r == FairReclaimLoop(vm_mem_info, set_log, mstatus, 0,
                                 mem_virt_info.num_domains,
                                 U64Sub(info.host_tgt_mem, info.host_free_mem),
                                 info, sets)
        IN  /\ ~HostGuard(host_precent_free)
            /\ U64Less(info.host_free_mem, info.host_tgt_mem)
            /\ vm_mem_info' = r.vm
            /\ set_log' = r.log
            /\ mstatus' = r.status
            /\ mem_virt_info' = [info EXCEPT
                                    !.low_mem_mask = FairReclaimLowMask(@)]
    /\ UNCHANGED << mpc, menv >>
    /\ UNCHANGED mem_hist
    /\ UNCHANGED cpu_vars

\* hungry pass, guard failed and the host is at or above its target: the
\* guest is skipped
VmMemoryAdjustSkip ==
    /\ HungryMore
    /\ \E hf \in menv.host_free :
        LET i == LOW_BIT_GET32(mem_virt_info.low_mem_mask)
            mem_adj == HungryAdj(vm_mem_info[i].mem_total, vm_mem_info[i].percent_avail)
            host_precent_free == HostPercentFree(U64(hf), mem_adj,
                                                 mem_virt_info.host_total_mem)
        IN  /\ ~HostGuard(host_precent_free)
            /\ ~U64Less(U64(hf), mem_virt_info.host_tgt_mem)
            /\ mem_virt_info' = [mem_virt_info EXCEPT
                                    !.host_free_mem = U64(hf),
                                    !.low_mem_mask = @ \ {i}]
    /\ UNCHANGED << mpc, mstatus, vm_mem_info, menv, set_log >>
    /\ UNCHANGED mem_hist
    /\ UNCHANGED cpu_vars

\* vm_memory_adjust returns; coordinator loops while status is EXIT_SUCCESS
VmMemoryAdjustReturn ==
    /\ mpc = "vm_memory_adjust"
    /\ ~ExcessMore
    /\ ~LowMore
    /\ mpc' = IF mstatus = EXIT_SUCCESS THEN "sleep" ELSE "virt_deinit"
    /\ set_log' = << >>
    /\ UNCHANGED << mstatus, mem_virt_info, vm_mem_info, menv >>
    /\ UNCHANGED mem_hist
    /\ UNCHANGED cpu_vars

\* main: virt_deinit after coordinator returned, then print and return status
MemVirtDeinit ==
    /\ mpc = "virt_deinit"
    /\ LET rel == DeinitReleases(mem_virt_info.num_domains)
       IN  /\ mreleased' = mreleased \o rel
           /\ mem_virt_info' = [mem_virt_info EXCEPT
                                    !.num_domains = 0,
                                    !.domain_list = @ - HandlesIn(rel),
                                    !.conn = "closed"]
    /\ mstderr' = IF mstatus # EXIT_SUCCESS
                  THEN Append(mstderr, ExitErrorCode(mstatus)) ELSE mstderr
    /\ mpc' = "exit"
    /\ UNCHANGED << mstatus, vm_mem_info, menv, set_log, mfault >>
    /\ UNCHANGED cpu_vars

NextMem ==
    \/ MemMainUsage
    \/ MemVirtInitFail
    \/ MemVirtInit
    \/ CollectMemStats
    \/ VmMemoryAdjustExcess
    \/ VmMemoryAdjustGrant
    \/ VmMemoryAdjustFairReclaim
    \/ VmMemoryAdjustSkip
    \/ VmMemoryAdjustReturn
    \/ MemVirtDeinit

SpecMem == InitMem /\ [][NextMem]_vars

\* the same program in the environments of the worked examples: a guest of
\* 1 000 000 KiB with 50 % or 10 % available, guests of 2 000 000 KiB with
\* 10 % or 30 % available, a host of 8 000 000 or 4 500 000 KiB
ScenVmSamples ==
    { [free |-> 500000, total |-> 1000000],
      [free |-> 100000, total |-> 1000000],
      [free |-> 200000, total |-> 2000000],
      [free |-> 600000, total |-> 2000000] }

ScenHostTotalSamples == {8000000, 4500000}

\* host free memory read in the hungry pass, and at virt_init and collection
ScenHostFreeSamples == {4000000, 700000, 400000}

ScenHostFreeTickSamples == {4000000, 400000}

ScenMemMaxSamples == {1100000, 2500000}

InitMemScen ==
    /\ InitMemState
    /\ menv = [vm |-> ScenVmSamples, host_free |-> ScenHostFreeSamples,
               host_free_tick |-> ScenHostFreeTickSamples,
               host_total |-> ScenHostTotalSamples, mem_max |-> ScenMemMaxSamples]
    /\ InitCpuState
    /\ env = [idle |-> {}, time |-> {}]

SpecMemScen == InitMemScen /\ [][NextMem]_vars

\* the same program on a host whose virNodeGetFreeMemory can fail in a
\* cycle, in collect_mem_stats or in the hungry pass: a hungry and an excess
\* guest reading, a guest that reports neither statistic, a guest that may
\* be at its maximum size, and a host that allows a grant, a skip or a fair
\* reclaim
InitMemFault ==
    /\ InitMemState
    /\ menv = [vm |-> { [free |-> 200000, total |-> 2000000],
                        [free |-> 2500000, total |-> 2000000],
                        [free |-> Absent, total |-> Absent] },
               host_free |-> {4000000, 1200000, 700000, HostFreeFailed},
               host_free_tick |-> {4000000, HostFreeFailed},
               host_total |-> HostTotalSamples,
               mem_max |-> {2000000, 2500000}]
    /\ InitCpuState
    /\ env = [idle |-> {}, time |-> {}]

SpecMemFault == InitMemFault /\ [][NextMem]_vars

----------------------------------------------------------------------------
(* both daemons: either one is started                                     *)

\* the scheduler with a busy and an idle pCPU reading, or the coordinator
\* with a hungry and an excess guest reading and a host that allows a grant,
\* a skip or a fair reclaim
InitDaemons ==
    \/ /\ InitCpuState
       /\ env = [idle |-> {50000000, 700000000}, time |-> VcpuTimeDeltas]
       /\ InitMemState
       /\ menv = [vm |-> {}, host_free |-> {}, host_free_tick |-> {},
                  host_total |-> {}, mem_max |-> {}]
    \/ /\ InitMemState
       /\ menv = [vm |-> { [free |-> 200000, total |-> 2000000],
                           [free |-> 2500000, total |-> 2000000] },
                  host_free |-> {4000000, 1200000, 700000},
                  host_free_tick |-> {4000000},
                  host_total |-> HostTotalSamples, mem_max |-> {2500000}]
       /\ InitCpuState
       /\ env = [idle |-> {}, time |-> {}]

\* the process that was started: the other one has no environment
SchedulerStarted == menv.vm = {}
CoordinatorStarted == env.idle = {}

\* the process that was started runs
NextDaemons ==
    \/ SchedulerStarted /\ MainUsage
    \/ SchedulerStarted /\ VirtInitFail
    \/ SchedulerStarted /\ VirtInit
    \/ SchedulerStarted /\ VcpuStatsInit
    \/ SchedulerStarted /\ CollectPcpuStats
    \/ SchedulerStarted /\ CollectVcpuStats
    \/ SchedulerStarted /\ PinningAdjust
    \/ SchedulerStarted /\ PinningAdjustReturn
    \/ SchedulerStarted /\ VirtDeinit
    \/ CoordinatorStarted /\ MemMainUsage
    \/ CoordinatorStarted /\ MemVirtInitFail
    \/ CoordinatorStarted /\ MemVirtInit
    \/ CoordinatorStarted /\ CollectMemStats
    \/ CoordinatorStarted /\ VmMemoryAdjustExcess
    \/ CoordinatorStarted /\ VmMemoryAdjustGrant
    \/ CoordinatorStarted /\ VmMemoryAdjustFairReclaim
    \/ CoordinatorStarted /\ VmMemoryAdjustSkip
    \/ CoordinatorStarted /\ VmMemoryAdjustReturn
    \/ CoordinatorStarted /\ MemVirtDeinit

SpecDaemons == InitDaemons /\ [][NextDaemons]_vars

\* a started process is not suspended forever: vcpu_pinning_adjust and
\* vm_memory_adjust return when their loops are over, and virt_deinit
\* returns to main, which returns
SpecDaemonsFair ==
    /\ SpecDaemons
    /\ WF_vars(PinningAdjustReturn)
    /\ WF_vars(VirtDeinit)
    /\ WF_vars(VmMemoryAdjustReturn)
    /\ WF_vars(MemVirtDeinit)

\* the scheduler on a closed-loop host: the guests' demands are fixed for
\* the run
InitCpuClosed ==
    /\ InitCpuState
    /\ \E demand \in [0..(MaxDomains - 1) -> DemandSamples] :
        env = [idle |-> ClosedIdleDeltas, time |-> ClosedTimeDeltas,
               demand |-> demand]
    /\ InitMemState
    /\ menv = [vm |-> {}, host_free |-> {}, host_free_tick |-> {},
               host_total |-> {}, mem_max |-> {}]

\* the scheduler on a host whose counters can run ahead of the cycle or
\* fall behind the value read before
InitCpuWide ==
    /\ InitCpuState
    /\ env = [idle |-> WideIdleDeltas, time |-> WideTimeDeltas]
    /\ InitMemState
    /\ menv = [vm |-> {}, host_free |-> {}, host_free_tick |-> {},
               host_total |-> {}, mem_max |-> {}]

SpecCpuWide == InitCpuWide /\ [][NextCpu]_vars

\* the scheduler on a closed-loop host with one pCPU and two guests more
\* than the other hosts have at most (three pCPUs, five guests), so that two
\* pCPUs can be hot at once while another is cold
BusyDomains == MaxDomains + 2
BusyPcpus == MaxPcpus + 1

InitCpuBusy ==
    /\ InitCpuState
    /\ \E demand \in [0..(BusyDomains - 1) -> DemandSamples] :
        env = [idle |-> ClosedIdleDeltas, time |-> ClosedTimeDeltas,
               demand |-> demand,
               domains |-> {BusyDomains}, pcpus |-> {BusyPcpus}]
    /\ InitMemState
    /\ menv = [vm |-> {}, host_free |-> {}, host_free_tick |-> {},
               host_total |-> {}, mem_max |-> {}]

\* the scheduler on the host of the worked example with four guests on two
\* pCPUs: in a cycle a pCPU is at 95 % (idle for 50 ms of the second) or at
\* 30 %, and every guest runs for 400 ms
ScenDomains == 4
ScenPcpus == 2
ScenIdleDeltas == {50000000, 700000000}
ScenTimeDeltas == {400000000}

InitCpuScen ==
    /\ InitCpuState
    /\ env = [idle |-> ScenIdleDeltas, time |-> ScenTimeDeltas,
              domains |-> {ScenDomains}, pcpus |-> {ScenPcpus}]
    /\ InitMemState
    /\ menv = [vm |-> {}, host_free |-> {}, host_free_tick |-> {},
               host_total |-> {}, mem_max |-> {}]

SpecCpuScen == InitCpuScen /\ [][NextCpu]_vars

\* the scheduler on a closed-loop host with nine pCPUs, one more than the
\* bits of the unsigned char cpumap, and ten guests: the first and the last
\* guest share pCPU 0, the others ask for 10 % each
ManyPcpus == 9
ManyDomains == 10

InitCpuMany ==
    /\ InitCpuState
    /\ \E first \in DemandSamples, last \in DemandSamples :
        env = [idle |-> ClosedIdleDeltas, time |-> ClosedTimeDeltas,
               demand |-> [g \in 0..(ManyDomains - 1) |->
                             IF g = 0 THEN first
                             ELSE IF g = ManyDomains - 1 THEN last ELSE 10],
               domains |-> {ManyDomains}, pcpus |-> {ManyPcpus}]
    /\ InitMemState
    /\ menv = [vm |-> {}, host_free |-> {}, host_free_tick |-> {},
               host_total |-> {}, mem_max |-> {}]

SpecCpuMany == InitCpuMany /\ [][NextCpu]_vars

\* the scheduler started with an interval of 1 .. MaxSeconds seconds
InitCpuCycle ==
    /\ InitCpuState
    /\ \E T \in CycleSeconds :
        env = [idle |-> CycleIdleDeltas, time |-> CycleTimeDeltas,
               seconds |-> T]
    /\ InitMemState
    /\ menv = [vm |-> {}, host_free |-> {}, host_free_tick |-> {},
               host_total |-> {}, mem_max |-> {}]

SpecCpuCycle == InitCpuCycle /\ [][NextCpu]_vars

\* vcpu_pinning_adjust is a loop of a sequential program that is not
\* suspended forever: it takes its next iteration, or returns
SpecCpuClosed ==
    /\ InitCpuClosed /\ [][NextCpu]_vars
    /\ WF_vars(PinningAdjust)
    /\ WF_vars(PinningAdjustReturn)

SpecCpuBusy ==
    /\ InitCpuBusy /\ [][NextCpu]_vars
    /\ WF_vars(PinningAdjust)
    /\ WF_vars(PinningAdjustReturn)

----------------------------------------------------------------------------
(* VCPU scheduler: properties                                              *)

\* the scheduler loop is running (init succeeded, teardown not yet done)
Running == pc \in {"sleep", "collect_vcpu_stats", "vcpu_pinning_adjust", "virt_deinit"}

\* the vCPUs met from v by following next, until head is next or fuel is used
RECURSIVE RingWalk(_, _, _, _)
RingWalk(vs, v, head, fuel) ==
    IF v \notin DOMAIN vs \/ fuel = 0 THEN << >>
    ELSE IF vs[v].next = head THEN << v >>
    ELSE << v >> \o RingWalk(vs, vs[v].next, head, fuel - 1)

\* the ring of pCPU p read from its head
RingSeqOf(vs, ps, p) ==
    RingWalk(vs, ps[p].head, ps[p].head, Cardinality(DOMAIN vs))

SeqElems(q) == { q[k] : k \in 1..Len(q) }

RECURSIVE SumPinned(_, _)
SumPinned(ps, S) ==
    IF S = {} THEN 0
    ELSE LET x == CHOOSE y \in S : TRUE
         IN  ps[x].num_pinned + SumPinned(ps, S \ {x})

\* the ownership graph: everything pin and unpin write
Pinning ==
    [v |-> [g \in DOMAIN vcpu_stats |->
              << vcpu_stats[g].pcpu, vcpu_stats[g].next, vcpu_stats[g].prev >>],
     p |-> [i \in DOMAIN pcpu_stats |->
              << pcpu_stats[i].head, pcpu_stats[i].num_pinned >>]]

\* C1 (CPU-1, P1): while the loop runs, each guest's vCPU is on exactly one
\* ring, the ring of the pCPU its back-pointer names; each ring's length is
\* its pCPU's num_pinned; the num_pinned add up to the number of guests.
C1_PinnedExactlyOnce ==
    Running =>
        /\ \A g \in DOMAIN vcpu_stats :
              { p \in DOMAIN pcpu_stats :
                  g \in SeqElems(RingSeqOf(vcpu_stats, pcpu_stats, p)) }
                = { vcpu_stats[g].pcpu }
        /\ \A p \in DOMAIN pcpu_stats :
              Len(RingSeqOf(vcpu_stats, pcpu_stats, p)) = pcpu_stats[p].num_pinned
        /\ SumPinned(pcpu_stats, DOMAIN pcpu_stats) = Cardinality(DOMAIN vcpu_stats)
        /\ pc # "exit" => virt_info.num_domains = Cardinality(DOMAIN vcpu_stats)

\* three guests, and the first migration of a cycle succeeded
C1_Witness ==
    /\ pc = "vcpu_pinning_adjust"
    /\ Cardinality(DOMAIN vcpu_stats) = 3
    /\ Len(pin_log) >= 1
    /\ pin_log[1].status = EXIT_SUCCESS
    /\ \E p \in DOMAIN pcpu_stats : pcpu_stats[p].num_pinned = 2

\* every sampled pCPU utilization lies in [LOW_THRESH, HIGH_THRESH]
AllPcpuInBand ==
    \A p \in DOMAIN pcpu_stats :
        /\ pcpu_stats[p].cpu_util >= VCPU_SCHEDULER_PCPU_LOW_THRESHOLD
        /\ pcpu_stats[p].cpu_util <= VCPU_SCHEDULER_PCPU_HIGH_THRESHOLD

\* C2 (P5): in a cycle whose sampled pCPU utilizations all lie in [70, 90] no
\* pin call is issued and no ring, num_pinned or back-pointer changes.
C2_StableNoPin ==
    [][ (pc \in {"collect_vcpu_stats", "vcpu_pinning_adjust"} /\ AllPcpuInBand)
          => (pin_log = << >> /\ pin_log' = << >> /\ Pinning' = Pinning) ]_vars

\* the planner runs with every pCPU in band, on a pCPU holding two vCPUs of
\* different utilization
C2_Witness ==
    /\ pc = "vcpu_pinning_adjust"
    /\ AllPcpuInBand
    /\ \E g, h \in DOMAIN vcpu_stats :
          /\ g # h
          /\ vcpu_stats[g].pcpu = vcpu_stats[h].pcpu
          /\ vcpu_stats[g].cpu_util # vcpu_stats[h].cpu_util

\* C6 (CPU-4): pcpu_high_mask and pcpu_low_mask have no bit in common.
C6_MasksDisjoint ==
    virt_info.pcpu_high_mask \cap virt_info.pcpu_low_mask = {}

\* the planner starts with a hot and a cold pCPU
C6_Witness ==
    /\ virt_info.pcpu_high_mask # {}
    /\ virt_info.pcpu_low_mask # {}
    /\ pc = "vcpu_pinning_adjust"

\* C7 (CPU-3): every bit of pcpu_high_mask names a pCPU with num_pinned > 1.
C7_HighHasTwo ==
    \A i \in virt_info.pcpu_high_mask : pcpu_stats[i].num_pinned > 1

\* a migration left its hot origin pCPU with a single vCPU
C7_Witness ==
    /\ pc = "vcpu_pinning_adjust"
    /\ pin_log # << >>
    /\ pin_log[1].status = EXIT_SUCCESS
    /\ pcpu_stats[pin_log[1].from].num_pinned = 1
    /\ pcpu_stats[pin_log[1].from].cpu_util > VCPU_SCHEDULER_PCPU_HIGH_THRESHOLD
    /\ pin_log[1].from \notin virt_info.pcpu_high_mask

\* the ring of pCPU p is well formed
RingWellFormed(vs, ps, p) ==
    LET r == RingSeqOf(vs, ps, p)
    IN  /\ (ps[p].head = NULL) <=> (ps[p].num_pinned = 0)
        /\ ps[p].head # NULL =>
             /\ Len(r) = ps[p].num_pinned
             /\ Cardinality(SeqElems(r)) = Len(r)
             /\ vs[r[Len(r)]].next = ps[p].head
             /\ vs[vs[ps[p].head].prev].next = ps[p].head
             /\ \A k \in 1..Len(r) :
                   /\ vs[r[k]].next \in DOMAIN vs
                   /\ vs[r[k]].prev \in DOMAIN vs
                   /\ vs[vs[r[k]].next].prev = r[k]
                   /\ vs[vs[r[k]].prev].next = r[k]

\* C8 (CPU-2): every ring is well formed and a vCPU on no ring has
\* prev = next = NULL.
C8_RingsWellFormed ==
    /\ \A p \in DOMAIN pcpu_stats : RingWellFormed(vcpu_stats, pcpu_stats, p)
    /\ \A g \in DOMAIN vcpu_stats :
          (\A p \in DOMAIN pcpu_stats :
              g \notin SeqElems(RingSeqOf(vcpu_stats, pcpu_stats, p)))
            => (vcpu_stats[g].prev = NULL /\ vcpu_stats[g].next = NULL)

\* guest 0, the head of pCPU 0's ring {0, 2}, was moved to the tail of pCPU
\* 1's ring
C8_Witness ==
    /\ pin_log # << >>
    /\ pin_log[1].status = EXIT_SUCCESS
    /\ pin_log[1].vcpu = 0
    /\ pin_log[1].from = 0
    /\ pcpu_stats[0].head = 2
    /\ RingSeqOf(vcpu_stats, pcpu_stats, 1) = << 1, 0 >>

\* the guests i < n with i mod P = p, in ascending order
PlacedOn(p, n, P) ==
    [k \in 1..Cardinality({ i \in 0..(n - 1) : i % P = p }) |-> p + (k - 1) * P]

\* the placement the specification states for init
InitialPlacement(vs, ps) ==
    LET n == Cardinality(DOMAIN vs)
        P == Cardinality(DOMAIN ps)
    IN  /\ \A i \in DOMAIN vs : vs[i].pcpu = i % P
        /\ \A p \in DOMAIN ps : RingSeqOf(vs, ps, p) = PlacedOn(p, n, P)
        /\ \A p, q \in DOMAIN ps :
              ps[p].num_pinned - ps[q].num_pinned \in {-1, 0, 1}

\* C9: when init succeeds guest i is pinned to pCPU i mod P, each ring lists
\* its guests in ascending index from head, and the num_pinned of any two
\* pCPUs differ by at most 1.
C9_InitialPlacement ==
    [][ (pc = "vcpu_stats_init" /\ pc' = "sleep")
          => InitialPlacement(vcpu_stats', pcpu_stats') ]_vars

\* three guests on two pCPUs: rings {0, 2} and {1}
C9_Witness ==
    /\ pc = "sleep"
    /\ Cardinality(DOMAIN vcpu_stats) = 3
    /\ Cardinality(DOMAIN pcpu_stats) = 2
    /\ RingSeqOf(vcpu_stats, pcpu_stats, 0) = << 0, 2 >>
    /\ RingSeqOf(vcpu_stats, pcpu_stats, 1) = << 1 >>

\* the vCPUs of the hot pCPUs in scan order: pCPUs ascending, rings from head
RECURSIVE CandSeq(_, _, _)
CandSeq(vs, ps, hot) ==
    IF hot = {} THEN << >>
    ELSE RingSeqOf(vs, ps, MinOf(hot)) \o CandSeq(vs, ps, hot \ {MinOf(hot)})

----------------------------------------------------------------------------
(* memory coordinator: properties                                          *)

\* the coordinator loop is running (init succeeded, teardown not yet done)
MemRunning == mpc \in {"sleep", "vm_memory_adjust", "virt_deinit"}

\* entry k is the latest virDomainSetMemory call of this cycle for its guest
LatestCall(k) ==
    \A j \in (k + 1)..Len(set_log) : set_log[j].vm # set_log[k].vm

C4_GrantKeepsHostAboveLow ==
    \A k \in 1..Len(set_log) :
        set_log[k].pass = "grant" =>
            /\ U64Leq(set_log[k].adj, set_log[k].host_free)
            /\ U64Less(U64(MEM_COORD_AVAIL_HOST_LOW_PERCENT),
                       U64Div(U64Mul(U64Sub(set_log[k].host_free, set_log[k].adj),
                                     U64(100)),
                              mem_virt_info.host_total_mem))

\* C5 (MEM-1, P3): after sampling, every guest's percent_avail is in 0 .. 100.
C5_PercentInRange ==
    MemRunning =>
        \A i \in DOMAIN vm_mem_info :
            /\ vm_mem_info[i].percent_avail >= 0
            /\ vm_mem_info[i].percent_avail <= 100

\* the step appends one call of the given pass to the calls of the cycle
Issued(pass) ==
    /\ Len(set_log') = Len(set_log) + 1
    /\ SubSeq(set_log', 1, Len(set_log)) = set_log
    /\ set_log'[Len(set_log')].pass = pass

\* the call the step appends
NewCall == set_log'[Len(set_log')]

\* the size an excess guest is shrunk to, in mathematical integers
ExcessTarget(mem_total, percent_avail) ==
    mem_total -
    (mem_total * (percent_avail - MEM_COORD_AVAIL_VM_TGT_PERCENT)) \div 100

\* a shrink of the excess pass: it is for the lowest guest still in the high
\* mask, which has had no call in this cycle, its size is ExcessTarget of the
\* guest's sampled size and percentage, and the guest's bit is cleared
ExcessCallRight ==
    Issued("excess") =>
        LET g == NewCall.vm
        IN  /\ g \in mem_virt_info.high_mem_mask
            /\ \A h \in mem_virt_info.high_mem_mask : g <= h
            /\ \A k \in 1..Len(set_log) :
                   set_log[k].pass = "excess" /\ set_log[k].vm < g
            /\ NewCall.kib = U64(ExcessTarget(U64ToNat(vm_mem_info[g].mem_total),
                                              vm_mem_info[g].percent_avail))
            /\ mem_virt_info'.high_mem_mask = mem_virt_info.high_mem_mask \ {g}

\* C11 as stated: in the excess pass every guest classified excess gets
\* exactly one guest_set_memory_kib, with the value mem_total - mem_total *
\* (percent_avail - GUEST_TGT) / 100, in ascending index order, and its bit is
\* cleared afterwards: while a guest is left in the high mask, the next
\* step of the adjustment is its shrink.
C11_EveryExcessGuestShrunk ==
    [][/\ ExcessCallRight
       /\ (mpc = "vm_memory_adjust" /\ mem_virt_info.high_mem_mask # {})
              => Issued("excess")]_vars

\* C11 amended: the same, as long as no guest_set_memory_kib of the pass has
\* failed; a failed call ends the pass, and the guests still in the high mask
\* get no call.
C11_ExcessPass ==
    [][/\ ExcessCallRight
       /\ (mpc = "vm_memory_adjust" /\ mem_virt_info.high_mem_mask # {}
           /\ mstatus = EXIT_SUCCESS) => Issued("excess")]_vars

\* two excess guests shrunk in index order, one of them the guest of
\* Scenario 4 (1 000 000 KiB, 50 % available) set to 800 000 KiB
C11_Witness ==
    /\ Len(set_log) = 2
    /\ set_log[1].pass = "excess" /\ set_log[1].vm = 0
    /\ set_log[2].pass = "excess" /\ set_log[2].vm = 1
    /\ \E k \in 1..2 :
        /\ vm_mem_info[set_log[k].vm].percent_avail = 50
        /\ set_log[k].kib = U64(800000)
        /\ set_log[k].adj = U64(200000)

\* the size a hungry guest is grown to, in mathematical integers
HungryTarget(mem_total, percent_avail, mem_max) ==
    LET t == mem_total +
             (mem_total * (MEM_COORD_AVAIL_VM_TGT_PERCENT - percent_avail)) \div 100
    IN  IF t > mem_max THEN mem_max ELSE t

\* the guard of the hungry pass for the lowest guest of the low mask, with
\* the host free memory the step has read
GuardPassed ==
    LET g == LOW_BIT_GET32(mem_virt_info.low_mem_mask)
    IN  HostGuard(HostPercentFree(mem_virt_info'.host_free_mem,
                                  HungryAdj(vm_mem_info[g].mem_total,
                                            vm_mem_info[g].percent_avail),
                                  mem_virt_info.host_total_mem))

\* C12: in an iteration of the hungry pass whose guard passes for the lowest
\* hungry guest g, the command issued is guest_set_memory_kib(g, min(mem_max[g],
\* mem_total[g] + mem_total[g] * (GUEST_TGT - percent_avail[g]) / 100)) and
\* g's bit is cleared from low_mem_mask; no other step issues a grant.
C12_HungryGrant ==
    [][/\ (HungryMore /\ mem_virt_info' # mem_virt_info /\ GuardPassed) =>
            LET g == LOW_BIT_GET32(mem_virt_info.low_mem_mask)
            IN  /\ Issued("grant")
                /\ NewCall.vm = g
                /\ NewCall.kib =
                     U64(HungryTarget(U64ToNat(vm_mem_info[g].mem_total),
                                      vm_mem_info[g].percent_avail,
                                      U64ToNat(vm_mem_info[g].mem_max)))
                /\ mem_virt_info'.low_mem_mask = mem_virt_info.low_mem_mask \ {g}
       /\ Issued("grant") => HungryMore /\ GuardPassed]_vars

\* Scenario 5: a guest of 1 000 000 KiB with 10 % available on a host with
\* 4 000 000 of 8 000 000 KiB free: 47 % would stay free, the guest is set to
\* 1 200 000 KiB, or to its maximum of 1 100 000 KiB
C12_Witness ==
    /\ Len(set_log) > 0
    /\ LET c == set_log[Len(set_log)]
       IN  /\ c.pass = "grant"
           /\ c.adj = U64(200000)
           /\ vm_mem_info[c.vm].percent_avail = 10
           /\ c.host_free = U64(4000000)
           /\ mem_virt_info.host_total_mem = U64(8000000)
           /\ HostPercentFree(c.host_free, c.adj, mem_virt_info.host_total_mem) = U64(47)
           /\ \/ c.kib = U64(1200000) /\ vm_mem_info[c.vm].mem_max = U64(2500000)
              \/ c.kib = U64(1100000) /\ vm_mem_info[c.vm].mem_max = U64(1100000)
           /\ c.vm \notin mem_virt_info.low_mem_mask

\* the step appends the calls of one fair reclaim: one per guest, in index
\* order
FairIssued ==
    LET N == mem_virt_info.num_domains
    IN  /\ Len(set_log') = Len(set_log) + N
        /\ SubSeq(set_log', 1, Len(set_log)) = set_log
        /\ \A i \in 0..(N - 1) :
            /\ set_log'[Len(set_log) + 1 + i].pass = "fair"
            /\ set_log'[Len(set_log) + 1 + i].vm = i

\* the call a fair reclaim issues for guest i
FairCall(i) == set_log'[Len(set_log) + 1 + i]

\* the amount the specification's hungry pass states for guest i:
\* mem_total * ((host_tgt - host_free) * 100 * mem_total / host_total) / 100,
\* in the program's unsigned 64-bit arithmetic
FairAdjAsStated(mem_total, host_tgt, host_free, host_total) ==
    U64Div(U64Mul(mem_total,
                  U64Div(U64Mul(U64Mul(U64Sub(host_tgt, host_free), U64(100)),
                                mem_total),
                         host_total)),
           U64(100))

\* the shortfall times the guest's share of host memory in whole percent:
\* ((host_tgt - host_free) * ((100 * mem_total) / host_total)) / 100, in
\* mathematical integers
FairAdjByShare(mem_total, host_tgt, host_free, host_total) ==
    ((host_tgt - host_free) * ((100 * mem_total) \div host_total)) \div 100

\* C13 as stated: in a fair reclaim every guest i is reduced by
\* adj_i = mem_total[i] * ((host_tgt - host_free) * 100 * mem_total[i] /
\* host_total) / 100.
C13_FairAmountAsStated ==
    [][FairIssued =>
         \A i \in DOMAIN vm_mem_info :
            FairCall(i).kib =
                U64Sub(vm_mem_info[i].mem_total,
                       FairAdjAsStated(vm_mem_info[i].mem_total,
                                       mem_virt_info.host_tgt_mem,
                                       mem_virt_info'.host_free_mem,
                                       mem_virt_info.host_total_mem))]_vars

\* C13 amended: in a fair reclaim every guest i is reduced by the shortfall
\* host_tgt - host_free times its share of host memory, the share being the
\* whole percentage 100 * mem_total[i] / host_total:
\* adj_i = ((host_tgt - host_free) * (100 * mem_total[i] / host_total)) / 100,
\* and guest_set_memory_kib(i, mem_total[i] - adj_i) is issued.
C13_FairAmount ==
    [][FairIssued =>
         \A i \in DOMAIN vm_mem_info :
            /\ FairCall(i).kib =
                 U64(U64ToNat(vm_mem_info[i].mem_total) -
                     FairAdjByShare(U64ToNat(vm_mem_info[i].mem_total),
                                    U64ToNat(mem_virt_info.host_tgt_mem),
                                    U64ToNat(mem_virt_info'.host_free_mem),
                                    U64ToNat(mem_virt_info.host_total_mem)))
            /\ vm_mem_info'[i].mem_total = FairCall(i).kib]_vars

\* Scenario 6: two guests of 2 000 000 KiB, host_total 4 500 000, host_free
\* 400 000 below host_tgt 675 000: each guest holds 44 % of the host and is
\* set to 2 000 000 - 275 000 * 44 / 100 = 1 879 000 KiB
C13_Witness ==
    /\ mem_virt_info.num_domains = 2
    /\ mem_virt_info.host_total_mem = U64(4500000)
    /\ mem_virt_info.host_tgt_mem = U64(675000)
    /\ mem_virt_info.host_free_mem = U64(400000)
    /\ Len(set_log) = 2
    /\ \A k \in 1..2 :
        /\ set_log[k].pass = "fair" /\ set_log[k].vm = k - 1
        /\ set_log[k].adj = U64(275000)
        /\ set_log[k].kib = U64(1879000)

\* the positions of the fair-reclaim calls among the calls of the cycle
FairCalls == { k \in 1..Len(set_log) : set_log[k].pass = "fair" }

\* C14: the fair-reclaim branch is entered at most once per tick; when it is
\* entered, one guest_set_memory_kib is issued for every guest, hungry or not,
\* low_mem_mask becomes 0, and no growth command follows in the tick: the
\* fair-reclaim calls of a cycle are its last calls, one per guest in index
\* order, and the low mask is empty from then on.
C14_FairReclaimOnce ==
    FairCalls # {} =>
        LET N == mem_virt_info.num_domains
            first == Len(set_log) - N + 1
        IN  /\ first >= 1
            /\ FairCalls = first..Len(set_log)
            /\ \A i \in 0..(N - 1) : set_log[first + i].vm = i
            /\ mem_virt_info.low_mem_mask = {}
            /\ mpc = "vm_memory_adjust"

\* a cycle in which guest 0 was excess and shrunk, guest 1 was hungry, and
\* the fair reclaim then took memory from both, the guest that was not
\* hungry included
C14_Witness ==
    /\ mem_virt_info.num_domains = 2
    /\ Len(set_log) = 3
    /\ set_log[1].pass = "excess" /\ set_log[1].vm = 0
    /\ set_log[2].pass = "fair" /\ set_log[2].vm = 0
    /\ set_log[3].pass = "fair" /\ set_log[3].vm = 1
    /\ vm_mem_info[0].percent_avail > MEM_COORD_AVAIL_VM_HIGH_PERCENT
    /\ vm_mem_info[1].percent_avail < MEM_COORD_AVAIL_VM_LOW_PERCENT
    /\ mem_virt_info.low_mem_mask = {}

\* a guest_set_memory_kib of the cycle's fair reclaim has failed
FairCallFailed == \E k \in FairCalls : set_log[k].status # EXIT_SUCCESS

\* C15: a set-memory failure inside the fair-reclaim branch does not stop the
\* branch (a step that issues a fair-reclaim call issues one for every
\* guest), does not change the status the tick returns, and does not end the
\* loop (the cycle returns with EXIT_SUCCESS and the coordinator sleeps
\* again).
C15_FairReclaimIgnoresFailure ==
    [][/\ (Len(set_log') > Len(set_log)
           /\ set_log'[Len(set_log) + 1].pass = "fair")
              => /\ FairIssued
                 /\ mstatus' = mstatus
                 /\ mstatus' = EXIT_SUCCESS
                 /\ mpc' = "vm_memory_adjust"
       /\ FairCallFailed => /\ mpc' = "sleep"
                            /\ mstatus' = EXIT_SUCCESS]_vars

\* the fair reclaim's call for guest 0 failed, the call for guest 1 was made
\* all the same, and the status is still EXIT_SUCCESS
C15_Witness ==
    /\ mem_virt_info.num_domains = 2
    /\ Len(set_log) >= 2
    /\ set_log[Len(set_log) - 1].pass = "fair"
    /\ set_log[Len(set_log) - 1].vm = 0
    /\ set_log[Len(set_log) - 1].status = VIR_ERROR
    /\ set_log[Len(set_log)].pass = "fair"
    /\ set_log[Len(set_log)].vm = 1
    /\ mstatus = EXIT_SUCCESS

\* the percentage of host memory free after call c, as the program derives
\* it: (host_free -/+ adj) * 100 / host_total in unsigned 64 bits, kept in an
\* unsigned int; a shrink adds what it takes from the guest
DerivedHostFreeAfter(c) ==
    U64ToU32(U64Div(U64Mul(IF c.pass = "grant"
                           THEN U64Sub(c.host_free, c.adj)
                           ELSE U64Add(c.host_free, c.adj),
                           U64(100)),
                    mem_virt_info.host_total_mem))

\* C16 (MEM-3) as stated: every memory adjustment command of a tick is issued
\* either when the derived host-free-after-change percentage exceeds the
\* host-low threshold, or while executing the fair-reclaim branch.
C16_OnlyGuardedOrFair ==
    \A k \in 1..Len(set_log) :
        \/ set_log[k].pass = "fair"
        \/ U64Less(U64(MEM_COORD_AVAIL_HOST_LOW_PERCENT),
                   DerivedHostFreeAfter(set_log[k]))

\* C16 amended: every command that grows a guest is issued in an iteration
\* of the hungry pass in which the percentage the program derives exceeds the
\* host-low threshold; every other command is a shrink of the excess pass,
\* issued without any test of the host, or a call of the fair reclaim, and
\* neither grows a guest.
C16_GrowthGuarded ==
    [][mpc = "vm_memory_adjust" =>
        /\ set_log' # set_log /\ mpc' = mpc
              => Issued("excess") \/ Issued("grant") \/ FairIssued
        /\ Issued("grant")
              => U64Less(U64(MEM_COORD_AVAIL_HOST_LOW_PERCENT),
                         DerivedHostFreeAfter(NewCall))
        /\ \A i \in DOMAIN vm_mem_info :
              U64Less(vm_mem_info[i].mem_total, vm_mem_info'[i].mem_total)
                  => Issued("grant") /\ NewCall.vm = i]_vars

\* an excess guest was shrunk by 200 000 KiB while the host had 400 000 of
\* 8 000 000 KiB free (7 % after the change), and a hungry guest was then
\* grown with the guard passed
C16_Witness ==
    /\ Len(set_log) = 2
    /\ set_log[1].pass = "excess"
    /\ set_log[1].host_free = U64(400000) /\ set_log[1].adj = U64(200000)
    /\ mem_virt_info.host_total_mem = U64(8000000)
    /\ DerivedHostFreeAfter(set_log[1]) = U64(7)
    /\ set_log[2].pass = "grant"
    /\ U64Less(U64Zero, set_log[2].adj)
    /\ U64Less(U64(MEM_COORD_AVAIL_HOST_LOW_PERCENT),
               DerivedHostFreeAfter(set_log[2]))

----------------------------------------------------------------------------
(* both daemons: properties of the error paths                             *)

\* a step of a tick has returned a status other than EXIT_SUCCESS
CpuTickFailed ==
    /\ pc \in {"sleep", "collect_vcpu_stats", "vcpu_pinning_adjust", "virt_deinit"}
    /\ status # EXIT_SUCCESS

MemTickFailed ==
    /\ mpc \in {"sleep", "vm_memory_adjust", "virt_deinit"}
    /\ mstatus # EXIT_SUCCESS

\* every one of n guest handles released, then the connection closed
TornDown(rel, n) ==
    /\ Len(rel) = n + 1
    /\ \A k \in 1..n : rel[k] = "domain"
    /\ rel[n + 1] = "conn"

\* the process has exited after one teardown
CpuTornDown ==
    /\ pc = "exit"
    /\ TornDown(released, Cardinality(DOMAIN vcpu_stats))
    /\ virt_info.domain_list = 0
    /\ virt_info.conn = "closed"

MemTornDown ==
    /\ mpc = "exit"
    /\ TornDown(mreleased, Cardinality(DOMAIN vm_mem_info))
    /\ mem_virt_info.domain_list = 0
    /\ mem_virt_info.conn = "closed"

\* after a failed step the scheduler makes no further call of a tick, keeps
\* the status, and goes through virt_deinit to the exit; nothing is released
\* before virt_deinit and nothing happens after the exit
CpuFailStep ==
    /\ pc # "exit"
    /\ CpuTickFailed =>
        /\ status' = status
        /\ pc' \in {"virt_deinit", "exit"}
        /\ Len(pin_log') <= Len(pin_log)
        /\ UNCHANGED << pcpu_stats, vcpu_stats >>
        /\ IF pc = "virt_deinit"
           THEN released = << >> /\ pc' = "exit" /\ CpuTornDown'
           ELSE released' = << >>

MemFailStep ==
    /\ mpc # "exit"
    /\ MemTickFailed =>
        /\ mstatus' = mstatus
        /\ mpc' \in {"virt_deinit", "exit"}
        /\ Len(set_log') <= Len(set_log)
        /\ UNCHANGED vm_mem_info
        /\ IF mpc = "virt_deinit"
           THEN mreleased = << >> /\ mpc' = "exit" /\ MemTornDown'
           ELSE mreleased' = << >>

\* C17: in both daemons, once a sample or actuation step of a tick has
\* returned a non-success status, no further tick is started, teardown runs
\* exactly once afterwards (every guest handle released, then the session
\* closed), and the process exits with that status: every later step keeps
\* the status and leads towards the exit, and the exit is reached.
C17_FailureEndsLoop ==
    /\ [][IF SchedulerStarted THEN CpuFailStep ELSE MemFailStep]_vars
    /\ (CpuTickFailed \/ MemTickFailed) ~> (CpuTornDown \/ MemTornDown)

\* the scheduler has exited with -1 after virDomainPinVcpu failed in the
\* planner of a tick with three guests, the three handles released and
\* the connection closed
C17_Witness ==
    /\ pc = "exit"
    /\ fault = "pin"
    /\ status = VIR_ERROR
    /\ released = << "domain", "domain", "domain", "conn" >>
    /\ virt_info.conn = "closed"

\* the step is a failing step of initialisation: virt_init, or one of the
\* functions it calls, returns an error
CpuInitFails == pc \in {"main", "vcpu_stats_init"} /\ fault' # "none"
MemInitFails == mpc = "main" /\ mfault' # "none"

\* C18: in both daemons, when init fails with a setup error at any step, the
\* control loop is never entered, and what init had already acquired (the
\* connection, the guest handles) is released by the teardown before the
\* process exits.
C18_InitFailureCleansUp ==
    [][/\ CpuInitFails =>
            /\ pc' \in {"virt_deinit", "exit"}
            /\ pc' = "exit" => /\ virt_info'.conn # "open"
                               /\ virt_info'.domain_list = 0
       /\ MemInitFails =>
            /\ mpc' \in {"virt_deinit", "exit"}
            /\ mpc' = "exit" => /\ mem_virt_info'.conn # "open"
                                /\ mem_virt_info'.domain_list = 0]_vars

\* the lines of a stderr history
Printed(err) == { err[k] : k \in 1..Len(err) }

\* C19: in both daemons, on any internal error, from init or from a tick,
\* the daemon has printed the numeric error code to stderr when it exits, and
\* it exits with a non-zero status.
C19_ErrorCodePrinted ==
    /\ (pc = "exit" /\ fault # "none") =>
            /\ status # 0
            /\ ExitErrorCode(status) \in Printed(stderr)
    /\ (mpc = "exit" /\ mfault # "none") =>
            /\ mstatus # 0
            /\ ExitErrorCode(mstatus) \in Printed(mstderr)

\* the failed operations each error code stands for: connection, no active
\* guest, guest list, allocation, a guest's info or statistics, the host's
\* free memory or a pCPU's idle time
KindOf(code) ==
    IF code = -1 THEN {"conn"}
    ELSE IF code = -2 THEN {"no_domains"}
    ELSE IF code = -3 THEN {"domain_list"}
    ELSE IF code = -4 THEN {"nomem"}
    ELSE IF code = -5 THEN {"domain_info", "mem_stats", "max_memory"}
    ELSE IF code = -6 THEN {"host_free", "pcpu_idle"}
    ELSE {"pin", "cpu_stats", "set_memory", "stats_period", "host_info"}

\* C20: the status of a failed run identifies the kind of failure: -1 only a
\* failed connection, -2 only no active guests, -3 only a failed guest list,
\* -4 only a failed allocation, -5 only a failed per-guest info or statistics
\* read, -6 a failed host free-memory or pCPU idle query; the failure of
\* another operation (pin, set-memory, host CPU statistics, host info) does
\* not come out under one of these codes.
C20_StatusIdentifiesKind ==
    /\ fault # "none" => fault \in KindOf(status)
    /\ mfault # "none" => mfault \in KindOf(mstatus)

----------------------------------------------------------------------------
(* VCPU scheduler: convergence, sampling range, counter regression         *)

\* no call of the host has failed so far
NoHostCallFailed == fault = "none"

\* closed loop: what the guests pinned to a pCPU ask for fits the pCPU, so
\* that its sampled utilization is the sum of theirs
DemandsFit ==
    \A i \in DOMAIN pcpu_stats : DemandOn(i, virt_info.num_domains - 1) <= 100

\* C21: on a closed-loop host (each guest's utilization the same in every
\* cycle, each pCPU's the sum of its pinned guests', never above 100) where
\* no call fails, there is a cycle after which vcpu_pinning_adjust never
\* issues a pin call again
C21_Converges ==
    [](NoHostCallFailed /\ DemandsFit) => <>[](pin_log = << >>)

\* a guest was moved off a hot pCPU of a closed-loop host, and the demands
\* fit the pCPUs after the move
C21_Witness ==
    /\ ClosedLoop
    /\ NoHostCallFailed
    /\ DemandsFit
    /\ pc = "vcpu_pinning_adjust"
    /\ Len(pin_log) = 1
    /\ pin_log[1].status = EXIT_SUCCESS
    /\ DemandOn(pin_log[1].from, virt_info.num_domains - 1) < VCPU_SCHEDULER_PCPU_LOW_THRESHOLD

\* the cycle's pCPU sampling succeeded / its vCPU sampling succeeded too
PcpuSampled == pc \in {"collect_vcpu_stats", "vcpu_pinning_adjust"}
VcpuSampled == pc = "vcpu_pinning_adjust"

\* C22: after every successful sampling step every pCPU utilization and
\* every vCPU utilization is an integer in [0, 100], whatever the counter
\* differences are, differences above the cycle length included
C22_UtilInRange ==
    /\ PcpuSampled =>
         \A i \in DOMAIN pcpu_stats : pcpu_stats[i].cpu_util \in 0..100
    /\ VcpuSampled =>
         \A g \in DOMAIN vcpu_stats : vcpu_stats[g].cpu_util \in 0..100

\* the difference read for a counter in this cycle is a regression
Regressed(delta) == delta < 0

\* C23: a pCPU or vCPU whose counter was read smaller than the cached value
\* is not classified in that cycle: a regressed pCPU has no bit in
\* pcpu_high_mask or pcpu_low_mask, and the planner pins no regressed vCPU
\* and pins nothing to a regressed pCPU
C23_RegressionSkipped ==
    /\ PcpuSampled =>
         \A i \in DOMAIN sampled.idle :
            Regressed(sampled.idle[i]) =>
                i \notin (virt_info.pcpu_high_mask \cup virt_info.pcpu_low_mask)
    /\ VcpuSampled =>
         \A k \in 1..Len(pin_log) :
            /\ ~Regressed(sampled.time[pin_log[k].vcpu])
            /\ ~Regressed(sampled.idle[pin_log[k].to])
            /\ ~Regressed(sampled.idle[pin_log[k].from])

----------------------------------------------------------------------------
(* memory coordinator: failed reads, classification, mask reset            *)

\* C24: a failure of the host free-memory query in a cycle, in sampling or in
\* the re-read of the hungry pass, ends the loop with a non-success status,
\* and no memory command is computed from the failed reading
C24_HostFreeFailureFatal ==
    /\ (mpc \in {"sleep", "vm_memory_adjust"}
        /\ mem_virt_info.host_free_mem = U64(HostFreeFailed))
       => mstatus # EXIT_SUCCESS
    /\ \A k \in 1..Len(set_log) :
          set_log[k].pass \in {"grant", "fair"}
          => set_log[k].host_free # U64(HostFreeFailed)

----------------------------------------------------------------------------
(* both daemons: a failed sampling read                                    *)

\* the scheduler is about to sample (pCPUs, then vCPUs)
CpuSamplingStep == pc \in {"sleep", "collect_vcpu_stats"}

\* C25: in both daemons a cycle whose sampling fails issues no actuation
\* command: a sampling step issues no pin or set-memory call and, in the
\* scheduler, leaves every ring, num_pinned and back-pointer as it was; when
\* it fails the planner or the adjustment is not entered, and the teardown
\* that follows issues no call and leaves the pinning as it was
C25_FailedSamplingNoActuation ==
    [][/\ (SchedulerStarted /\ CpuSamplingStep) =>
            /\ pin_log = << >> /\ pin_log' = << >>
            /\ Pinning' = Pinning
            /\ (status' # EXIT_SUCCESS => pc' = "virt_deinit")
       /\ (SchedulerStarted /\ pc = "virt_deinit") =>
            /\ pin_log' = pin_log
            /\ Pinning' = Pinning
       /\ (CoordinatorStarted /\ mpc = "sleep") =>
            /\ set_log = << >> /\ set_log' = << >>
            /\ (mstatus' # EXIT_SUCCESS => mpc' = "virt_deinit")
       /\ (CoordinatorStarted /\ mpc = "virt_deinit") =>
            set_log' = set_log
      ]_vars

\* the pCPU reads of a cycle succeeded and the vCPU read of the second of
\* three guests failed: the scheduler is before its teardown with no pin call
\* made and two guests on the ring of pCPU 0
C25_Witness ==
    /\ SchedulerStarted
    /\ pc = "virt_deinit"
    /\ fault = "domain_info"
    /\ DOMAIN sampled.idle = DOMAIN pcpu_stats
    /\ DOMAIN sampled.time = {0}
    /\ Cardinality(DOMAIN vcpu_stats) = 3
    /\ pcpu_stats[0].num_pinned = 2
    /\ pin_log = << >>

----------------------------------------------------------------------------
(* classification                                                          *)

\* C26: after every successful collect_pcpu_stats, bit i of pcpu_high_mask
\* is set iff pcpu_util[i] > HIGH_THRESHOLD and num_pinned[i] > 1, and bit i
\* of pcpu_low_mask is set iff pcpu_util[i] < LOW_THRESHOLD: the masks are
\* those of this cycle's samples, no bit of an earlier cycle survives
C26_PcpuMasksFromSamples ==
    pc = "collect_vcpu_stats" =>
        \A i \in DOMAIN pcpu_stats :
            /\ i \in virt_info.pcpu_high_mask <=>
                  /\ pcpu_stats[i].cpu_util > VCPU_SCHEDULER_PCPU_HIGH_THRESHOLD
                  /\ pcpu_stats[i].num_pinned > 1
            /\ i \in virt_info.pcpu_low_mask <=>
                  pcpu_stats[i].cpu_util < VCPU_SCHEDULER_PCPU_LOW_THRESHOLD

\* two pCPUs and two guests just sampled: pCPU 0 is above the high threshold
\* with a single guest and in neither mask, pCPU 1 is cold
C26_Witness ==
    /\ pc = "collect_vcpu_stats"
    /\ DOMAIN pcpu_stats = {0, 1}
    /\ pcpu_stats[0].cpu_util > VCPU_SCHEDULER_PCPU_HIGH_THRESHOLD
    /\ pcpu_stats[0].num_pinned = 1
    /\ virt_info.pcpu_high_mask = {}
    /\ virt_info.pcpu_low_mask = {1}

\* collect_mem_stats has just returned EXIT_SUCCESS
MemSampled == mpc = "sleep" /\ mpc' = "vm_memory_adjust"

\* C27: after every successful collect_mem_stats, for every guest g whose
\* sampled mem_total is above 0, bit g of high_mem_mask is set iff
\* percent_avail[g] > GUEST_HIGH, and bit g of low_mem_mask is set iff
\* percent_avail[g] < GUEST_LOW and mem_total[g] < mem_max[g]; a guest with
\* mem_total = 0 has neither bit, and no guest has both
C27_MemMasksFromSamples ==
    [][MemSampled =>
        /\ \A g \in DOMAIN vm_mem_info' :
            IF vm_mem_info'[g].mem_total # U64Zero
            THEN /\ g \in mem_virt_info'.high_mem_mask <=>
                      vm_mem_info'[g].percent_avail > MEM_COORD_AVAIL_VM_HIGH_PERCENT
                 /\ g \in mem_virt_info'.low_mem_mask <=>
                      /\ vm_mem_info'[g].percent_avail < MEM_COORD_AVAIL_VM_LOW_PERCENT
                      /\ U64Less(vm_mem_info'[g].mem_total, vm_mem_info'[g].mem_max)
            ELSE g \notin (mem_virt_info'.high_mem_mask
                            \cup mem_virt_info'.low_mem_mask)
        /\ mem_virt_info'.high_mem_mask \cap mem_virt_info'.low_mem_mask = {}
      ]_vars

\* two guests just sampled, both with 10 % available: guest 0 is below its
\* maximum and hungry, guest 1 is at its maximum and in neither mask
C27_Witness ==
    /\ mpc = "vm_memory_adjust"
    /\ set_log = << >>
    /\ DOMAIN vm_mem_info = {0, 1}
    /\ vm_mem_info[0].percent_avail = 10
    /\ vm_mem_info[1].percent_avail = 10
    /\ U64Less(vm_mem_info[0].mem_total, vm_mem_info[0].mem_max)
    /\ vm_mem_info[1].mem_total = vm_mem_info[1].mem_max
    /\ mem_virt_info.low_mem_mask = {0}
    /\ mem_virt_info.high_mem_mask = {}

\* C28: whenever collect_mem_stats is entered, at the start of a cycle's
\* classification, high_mem_mask and low_mem_mask are both zero: no bit set
\* for a guest in one cycle is carried into the classification of a later one
C28_MemMasksZeroAtEntry ==
    mpc = "sleep" =>
        /\ mem_virt_info.high_mem_mask = {}
        /\ mem_virt_info.low_mem_mask = {}

\* a cycle is over in which guest 0 was classified hungry (10 % available)
\* and guest 1 excess (100 %): the next cycle starts with both masks zero
C28_Witness ==
    /\ mpc = "sleep"
    /\ mstatus = EXIT_SUCCESS
    /\ DOMAIN vm_mem_info = {0, 1}
    /\ vm_mem_info[0].percent_avail = 10
    /\ vm_mem_info[1].percent_avail = 100
    /\ mem_virt_info.high_mem_mask = {}
    /\ mem_virt_info.low_mem_mask = {}

----------------------------------------------------------------------------
(* VCPU scheduler: admissible migrations, termination of the planner       *)

\* the utilization pCPU L would have with vCPU v on it, as the planner
\* projects it
Projected(L, v) == pcpu_stats[L].cpu_util + vcpu_stats[v].cpu_util

\* the vCPUs on the rings of the pCPUs that are still in the high mask
OnHotPcpu ==
    { v \in DOMAIN vcpu_stats : vcpu_stats[v].pcpu \in virt_info.pcpu_high_mask }

\* C29: every pin call of the planner moves a vCPU from a pCPU classified hot
\* in this cycle to a different pCPU L classified cold in this cycle, with
\* pcpu_util[L] + vcpu_util[v] strictly below HIGH_THRESHOLD; and when every
\* vCPU of every hot pCPU would bring L to HIGH_THRESHOLD or more, the
\* iteration for L pins nothing
C29_AdmissibleMigration ==
    [][/\ Len(pin_log') = Len(pin_log) + 1 =>
            LET e == pin_log'[Len(pin_log')]
            IN  /\ e.from = vcpu_stats[e.vcpu].pcpu
                /\ e.from \in virt_info.pcpu_high_mask
                /\ pcpu_stats[e.from].cpu_util > VCPU_SCHEDULER_PCPU_HIGH_THRESHOLD
                /\ e.to = LOW_BIT_GET32(pcpu_low_mask)
                /\ e.to \in virt_info.pcpu_low_mask
                /\ pcpu_stats[e.to].cpu_util < VCPU_SCHEDULER_PCPU_LOW_THRESHOLD
                /\ e.to # e.from
                /\ Projected(e.to, e.vcpu) < VCPU_SCHEDULER_PCPU_HIGH_THRESHOLD
       /\ (/\ pc = "vcpu_pinning_adjust"
           /\ PinningAdjustMore
           /\ \A v \in OnHotPcpu :
                Projected(LOW_BIT_GET32(pcpu_low_mask), v)
                    >= VCPU_SCHEDULER_PCPU_HIGH_THRESHOLD)
          => /\ pin_log' = pin_log
             /\ Pinning' = Pinning
      ]_vars

\* closed-loop host: of the two guests of a hot pCPU, asking for 45 % and
\* 50 %, the second was moved to a cold pCPU that carried 10 %
C29_Witness ==
    /\ ClosedLoop
    /\ pc = "vcpu_pinning_adjust"
    /\ Len(pin_log) = 1
    /\ pin_log[1].status = EXIT_SUCCESS
    /\ pcpu_stats[pin_log[1].from].cpu_util > VCPU_SCHEDULER_PCPU_HIGH_THRESHOLD
    /\ pcpu_stats[pin_log[1].to].cpu_util = 10
    /\ pcpu_stats[pin_log[1].from].cpu_util = 95
    /\ vcpu_stats[pin_log[1].vcpu].cpu_util = 50
    /\ vcpu_stats[pin_log[1].vcpu].pcpu = pin_log[1].to

\* the planner is inside vcpu_pinning_adjust
InPlanner == pc = "vcpu_pinning_adjust"

\* a traversal of pCPU h's ring along next is back at the head after
\* num_pinned steps
TraversalReturns(h) ==
    LET r == RingSeqOf(vcpu_stats, pcpu_stats, h)
    IN  /\ Len(r) = pcpu_stats[h].num_pinned
        /\ Len(r) > 0
        /\ vcpu_stats[r[Len(r)]].next = pcpu_stats[h].head

----------------------------------------------------------------------------
(* VCPU scheduler: a failed pin call                                       *)

\* this step of the planner issued a pin call that failed
PinFailedStep ==
    /\ pc = "vcpu_pinning_adjust"
    /\ Len(pin_log') = Len(pin_log) + 1
    /\ pin_log'[Len(pin_log')].status # EXIT_SUCCESS

\* C31: when virDomainPinVcpu fails inside vcpu_pin_on_pcpu, every vCPU's
\* pcpu, prev and next and every pCPU's head and num_pinned are as before the
\* call; the failure status is what the planner holds, its loop condition is
\* false, and from there the planner returns that status to the scheduler
\* without another pin call
C31_PinFailureLeavesRings ==
    [][/\ PinFailedStep =>
            /\ vcpu_stats' = vcpu_stats
            /\ pcpu_stats' = pcpu_stats
            /\ status' = pin_log'[Len(pin_log')].status
            /\ status' # EXIT_SUCCESS
            /\ ~PinningAdjustMore'
       /\ (pc = "vcpu_pinning_adjust" /\ status # EXIT_SUCCESS) =>
            /\ pc' = "virt_deinit"
            /\ status' = status
            /\ vcpu_stats' = vcpu_stats
            /\ pcpu_stats' = pcpu_stats
            /\ pin_log' = << >>
      ]_vars

\* the pin of a guest from hot pCPU 0 to cold pCPU 1 has just failed: the
\* guest is still in pCPU 0's ring
C31_Witness ==
    /\ pc = "vcpu_pinning_adjust"
    /\ Len(pin_log) = 1
    /\ pin_log[1].status = VIR_ERROR
    /\ status = VIR_ERROR
    /\ vcpu_stats[pin_log[1].vcpu].pcpu = pin_log[1].from
    /\ pin_log[1].from # pin_log[1].to
    /\ pcpu_stats[pin_log[1].from].num_pinned > 1

----------------------------------------------------------------------------
(* memory coordinator: order of the two passes                             *)

\* this step is an iteration of the first while of vm_memory_adjust (each
\* one clears a bit of the high mask)
ExcessStep ==
    /\ mpc = "vm_memory_adjust"
    /\ mem_virt_info'.high_mem_mask # mem_virt_info.high_mem_mask

\* this step is an iteration of the second while (each one clears a bit of
\* the low mask, or all of them)
HungryStep ==
    /\ mpc = "vm_memory_adjust"
    /\ mem_virt_info'.low_mem_mask # mem_virt_info.low_mem_mask

\* the values virNodeGetFreeMemory can return inside the second while
HungryReads == { U64(hf) : hf \in menv.host_free }

\* C32: in a cycle the calls of the excess pass come before anything of the
\* hungry pass: an excess iteration finds only excess calls made, it does
\* not read host free memory and does not touch the low mask; a hungry
\* iteration runs with the high mask empty, reads host free memory anew, and
\* every call it makes (grant or fair reclaim) is computed from that reading
C32_ExcessBeforeHungry ==
    [][/\ ExcessStep =>
            /\ \A k \in 1..Len(set_log) : set_log[k].pass = "excess"
            /\ mem_virt_info'.host_free_mem = mem_virt_info.host_free_mem
            /\ mem_virt_info'.low_mem_mask = mem_virt_info.low_mem_mask
            /\ Len(set_log') = Len(set_log) + 1
            /\ set_log'[Len(set_log')].pass = "excess"
       /\ HungryStep =>
            /\ mem_virt_info.high_mem_mask = {}
            /\ mem_virt_info'.high_mem_mask = {}
            /\ mem_virt_info'.host_free_mem \in HungryReads
            /\ \A k \in (Len(set_log) + 1)..Len(set_log') :
                  /\ set_log'[k].pass \in {"grant", "fair"}
                  /\ set_log'[k].host_free = mem_virt_info'.host_free_mem
      ]_vars

\* guest 0 was shrunk by the excess pass, then guest 1 was grown on a reading
\* of host free memory that differs from the one of the sampling step
C32_Witness ==
    /\ mpc = "vm_memory_adjust"
    /\ Len(set_log) = 2
    /\ set_log[1].pass = "excess"
    /\ set_log[2].pass = "grant"
    /\ set_log[2].host_free # set_log[1].host_free
    /\ mem_virt_info.host_free_mem = set_log[2].host_free

----------------------------------------------------------------------------
(* memory coordinator: the fair share of the shortfall                     *)

\* a guest's share of the host's total memory in whole percent
SharePercent(mem_total, host_total) == (100 * mem_total) \div host_total

\* what guest i gave up in the fair reclaim of this step
FairGiven(i) ==
    U64ToNat(vm_mem_info[i].mem_total) - U64ToNat(vm_mem_info'[i].mem_total)

\* C33: in a fair reclaim, with shortfall = host_tgt - host_free (host_free
\* as just re-read), every guest's mem_total goes down by shortfall * s / 100,
\* s being the guest's share 100 * mem_total / host_total of the host's total
\* memory in whole percent, both divisions truncating; the shortfall is the
\* same for every guest of the reclaim
C33_FairShareOfShortfall ==
    [][(mpc = "vm_memory_adjust" /\ FairIssued) =>
         LET shortfall == U64ToNat(mem_virt_info.host_tgt_mem) -
                          U64ToNat(mem_virt_info'.host_free_mem)
         IN  /\ shortfall > 0
             /\ \A i \in DOMAIN vm_mem_info :
                  LET s == SharePercent(U64ToNat(vm_mem_info[i].mem_total),
                                        U64ToNat(mem_virt_info.host_total_mem))
                  IN  /\ FairGiven(i) = (shortfall * s) \div 100
                      /\ FairCall(i).adj = U64(shortfall)
                      /\ FairCall(i).kib = vm_mem_info'[i].mem_total]_vars

\* host_total 8 000 000 and host_tgt 1 200 000 with host_free 700 000: the
\* shortfall is 500 000, and a guest of 2 000 000 KiB, a quarter of the host,
\* gave 500 000 * 25 / 100 = 125 000 and is at 1 875 000
C33_Witness ==
    /\ mpc = "vm_memory_adjust"
    /\ mem_virt_info.host_total_mem = U64(8000000)
    /\ mem_virt_info.host_free_mem = U64(700000)
    /\ \E k \in FairCalls :
        /\ set_log[k].adj = U64(500000)
        /\ set_log[k].kib = U64(1875000)
        /\ vm_mem_info[set_log[k].vm].mem_total = U64(1875000)

----------------------------------------------------------------------------
(* VCPU scheduler: the order of the rings                                  *)

\* the sequence q without the element v
RECURSIVE SeqWithout(_, _)
SeqWithout(q, v) ==
    IF q = << >> THEN << >>
    ELSE IF Head(q) = v THEN SeqWithout(Tail(q), v)
         ELSE << Head(q) >> \o SeqWithout(Tail(q), v)

\* this step pinned vCPU v on pCPU P: v is on P after it and was not before
PinnedBy(v, P) ==
    /\ vcpu_stats'[v].pcpu = P
    /\ vcpu_stats[v].pcpu # P

\* the ring of pCPU p before and after the step
RingBefore(p) == RingSeqOf(vcpu_stats, pcpu_stats, p)
RingAfter(p) == RingSeqOf(vcpu_stats', pcpu_stats', p)

\* C34: a successful pin of v on P appends v to P's ring read from its head,
\* and the head stays when the ring was not empty; the ring v leaves keeps
\* its other vCPUs in their order; every other ring is as it was. Rings
\* change in no other way, so a ring read from its head lists its vCPUs in
\* the order in which they were pinned there
C34_RingOrder ==
    [][/\ \A v \in DOMAIN vcpu_stats' : \A P \in DOMAIN pcpu_stats' :
            (DOMAIN vcpu_stats = DOMAIN vcpu_stats' /\ PinnedBy(v, P)) =>
              /\ RingAfter(P) = Append(RingBefore(P), v)
              /\ RingBefore(P) # << >> => pcpu_stats'[P].head = pcpu_stats[P].head
              /\ \A q \in DOMAIN pcpu_stats \ {P} :
                    RingAfter(q) = SeqWithout(RingBefore(q), v)
       /\ (DOMAIN vcpu_stats = DOMAIN vcpu_stats'
             /\ \A v \in DOMAIN vcpu_stats : vcpu_stats'[v].pcpu = vcpu_stats[v].pcpu)
            => \A q \in DOMAIN pcpu_stats : RingAfter(q) = RingBefore(q)
      ]_vars

\* four guests on two pCPUs, rings {0, 2} and {1, 3}: guest 0 was migrated
\* from pCPU 0 to pCPU 1, whose ring is {1, 3, 0}; pCPU 0's ring is {2}
C34_Witness ==
    /\ pc = "vcpu_pinning_adjust"
    /\ Len(pin_log) = 1
    /\ pin_log[1].status = EXIT_SUCCESS
    /\ pin_log[1].vcpu = 0
    /\ RingSeqOf(vcpu_stats, pcpu_stats, 1) = << 1, 3, 0 >>
    /\ RingSeqOf(vcpu_stats, pcpu_stats, 0) = << 2 >>

----------------------------------------------------------------------------
(* VCPU scheduler: the length of the cycle                                 *)

\* T * 10^9 nanoseconds, the product taken in 64 bits
ExactCycleNs(seconds) ==
    U64Mul(U64(seconds), U64(VCPU_SCHEDULER_SEC_TO_NANOSECS))

\* the percentage of a cycle of T seconds that delta nanoseconds are:
\* (delta * 100) / (T * 10^9), truncated
PercentOfCycle(delta, seconds) ==
    delta \div (seconds * (VCPU_SCHEDULER_SEC_TO_NANOSECS \div 100))

\* C35: for every positive interval T of the command line the divisor of both
\* utilization formulas is exactly T * 10^9 nanoseconds, so that a sampled
\* utilization is the percentage of T seconds that the counter advanced by
C35_CycleLength ==
    (CycleGiven /\ Running) =>
        /\ NsCycleTimeUsed = ExactCycleNs(env.seconds)
        /\ PcpuSampled =>
              \A i \in DOMAIN sampled.idle :
                 pcpu_stats[i].cpu_util =
                    100 - PercentOfCycle(sampled.idle[i], env.seconds)
        /\ VcpuSampled =>
              \A g \in DOMAIN sampled.time :
                 vcpu_stats[g].cpu_util =
                    PercentOfCycle(sampled.time[g], env.seconds)

----------------------------------------------------------------------------
(* VCPU scheduler: the affinity mask of a pCPU                             *)

\* C36: the affinity mask kept in the record of pCPU id has exactly one bit
\* set, bit id, and that is the mask of every pin call onto that pCPU
C36_AffinityMask ==
    /\ \A i \in DOMAIN pcpu_stats : pcpu_stats[i].cpumap = {pcpu_stats[i].id}
    /\ \A k \in 1..Len(pin_log) : pin_log[k].cpumap = {pin_log[k].to}

----------------------------------------------------------------------------
(* VCPU scheduler: migrations of one cycle                                 *)

\* the pin calls of this cycle that succeeded
Migrations == { k \in 1..Len(pin_log) : pin_log[k].status = EXIT_SUCCESS }

\* num_pinned of pCPU i when the planner was entered
EntryPinned(i) ==
    pcpu_stats[i].num_pinned
      + Cardinality({ k \in Migrations : pin_log[k].from = i })
      - Cardinality({ k \in Migrations : pin_log[k].to = i })

\* the pCPUs this cycle's sampling classified hot, and cold
HotThisCycle ==
    { i \in DOMAIN pcpu_stats :
        /\ pcpu_stats[i].cpu_util > VCPU_SCHEDULER_PCPU_HIGH_THRESHOLD
        /\ EntryPinned(i) > 1 }
ColdThisCycle ==
    { i \in DOMAIN pcpu_stats :
        pcpu_stats[i].cpu_util < VCPU_SCHEDULER_PCPU_LOW_THRESHOLD }

\* C37: in a cycle no cold pCPU is the target of two pin calls and no hot
\* pCPU the origin of two, targets are cold and origins hot, so there are at
\* most min(number of hot pCPUs, number of cold pCPUs) pin calls
C37_MigrationBound ==
    pc = "vcpu_pinning_adjust" =>
        /\ \A j, k \in 1..Len(pin_log) :
              j # k => /\ pin_log[j].to # pin_log[k].to
                       /\ pin_log[j].from # pin_log[k].from
        /\ \A k \in 1..Len(pin_log) :
              /\ pin_log[k].to \in ColdThisCycle
              /\ pin_log[k].from \in HotThisCycle
        /\ Len(pin_log) <= Cardinality(HotThisCycle)
        /\ Len(pin_log) <= Cardinality(ColdThisCycle)

\* five guests on three pCPUs: pCPU 0 was hot, pCPUs 1 and 2 cold; one guest
\* went to pCPU 1, and the iteration for pCPU 2 was not run since no pCPU is
\* marked hot any more: one pin call for one hot and two cold pCPUs
C37_Witness ==
    /\ pc = "vcpu_pinning_adjust"
    /\ HotThisCycle = {0}
    /\ ColdThisCycle = {1, 2}
    /\ Len(pin_log) = 1
    /\ pin_log[1].status = EXIT_SUCCESS
    /\ pin_log[1].to = 1
    /\ pcpu_low_mask = {2}
    /\ virt_info.pcpu_high_mask = {}

----------------------------------------------------------------------------
(* VCPU scheduler: no admissible candidate is passed over                  *)

\* the vCPUs of the still-hot pCPUs that the planner may move to pCPU L
Admissible(L) ==
    { v \in OnHotPcpu : Projected(L, v) < VCPU_SCHEDULER_PCPU_HIGH_THRESHOLD }

\* C38: when the planner handles a cold pCPU L while a pCPU is still marked
\* hot, and some vCPU of a still-hot pCPU projects below HIGH_THRESHOLD on L,
\* a pin call onto L is made in that iteration: the first value of
\* vcpu_best_delta, 100, keeps no such vCPU out, whatever utilizations the
\* sampling stored
C38_CandidateComplete ==
    [][(/\ pc = "vcpu_pinning_adjust"
        /\ PinningAdjustMore
        /\ Admissible(LOW_BIT_GET32(pcpu_low_mask)) # {})
          => /\ Len(pin_log') = Len(pin_log) + 1
             /\ pin_log'[Len(pin_log')].to = LOW_BIT_GET32(pcpu_low_mask)
             /\ pin_log'[Len(pin_log')].vcpu
                   \in Admissible(LOW_BIT_GET32(pcpu_low_mask))
      ]_vars

----------------------------------------------------------------------------
(* memory coordinator: the fair reclaim does not wrap                      *)

\* what the fair reclaim of this step subtracted from guest i, modulo 2^64
FairTaken(i) == U64Sub(vm_mem_info[i].mem_total, vm_mem_info'[i].mem_total)

\* C39: the amount a fair reclaim subtracts from a guest's mem_total is not
\* larger than that mem_total, so the unsigned subtraction does not wrap and
\* mem_total does not grow; the amount is at most
\* MEM_COORD_AVAIL_HOST_TGT_PERCENT percent of the guest's mem_total
C39_FairReclaimBounded ==
    [][(mpc = "vm_memory_adjust" /\ FairIssued) =>
         \A i \in DOMAIN vm_mem_info :
            /\ U64Leq(FairTaken(i), vm_mem_info[i].mem_total)
            /\ U64Leq(vm_mem_info'[i].mem_total, vm_mem_info[i].mem_total)
            /\ U64Leq(U64Mul(U64(100), FairTaken(i)),
                      U64Mul(U64(MEM_COORD_AVAIL_HOST_TGT_PERCENT),
                             vm_mem_info[i].mem_total))]_vars

\* a fair reclaim for a shortfall of 500 000 KiB has set every guest: each
\* guest has a mem_total that is not above its maximum, and one of them, of
\* 2 000 000 KiB before, is at 1 875 000 KiB, 6.25 % less
C39_Witness ==
    /\ mpc = "vm_memory_adjust"
    /\ FairCalls # {}
    /\ \A k \in FairCalls :
        /\ set_log[k].adj = U64(500000)
        /\ U64Leq(set_log[k].kib, vm_mem_info[set_log[k].vm].mem_max)
    /\ \E k \in FairCalls : set_log[k].kib = U64(2000000 - 125000)

----------------------------------------------------------------------------
(* memory coordinator: a failed call of the excess pass or of a grant      *)

\* this step made a call of the excess pass or a grant, and the call failed
AdjustCallFailed ==
    /\ mpc = "vm_memory_adjust"
    /\ Len(set_log') = Len(set_log) + 1
    /\ set_log'[Len(set_log')].pass \in {"excess", "grant"}
    /\ set_log'[Len(set_log')].status # EXIT_SUCCESS

\* C40: when virDomainSetMemory fails in the excess pass or in a grant of the
\* hungry pass, its result is the status of vm_memory_adjust, and the next
\* step is the return to the coordinator, which leaves its loop with that
\* status: no guest still in the high or in the low mask is handled, no
\* further call is made and no host free memory is read
C40_AdjustFailureStops ==
    [][/\ AdjustCallFailed =>
            /\ mstatus' = set_log'[Len(set_log')].status
            /\ mstatus' # EXIT_SUCCESS
       /\ (mpc = "vm_memory_adjust" /\ mstatus # EXIT_SUCCESS) =>
            /\ mpc' = "virt_deinit"
            /\ mstatus' = mstatus
            /\ vm_mem_info' = vm_mem_info
            /\ mem_virt_info' = mem_virt_info
            /\ set_log' = << >>
      ]_vars

\* the excess pass shrank guest 0 and the call failed: guest 1 is still in
\* the low mask and the status is the failure
C40_Witness ==
    /\ mpc = "vm_memory_adjust"
    /\ Len(set_log) = 1
    /\ set_log[1].pass = "excess"
    /\ set_log[1].vm = 0
    /\ set_log[1].status = VIR_ERROR
    /\ mstatus = VIR_ERROR
    /\ mem_virt_info.low_mem_mask = {1}

====
